---- MODULE Spec2Model ----
(***************************************************************************)
(* A model of the MIE memory graph tools: mie_store (pkg/tools/store.go),  *)
(* mie_bulk_store (bulk store handler), mie_query (pkg/tools/query.go) and *)
(* the metadata counter of pkg/memory/client.go.                           *)
(*                                                                         *)
(* Text values are sequences of characters (small integers), identifiers   *)
(* are a variant prefix plus an opaque token, JSON numbers are integers    *)
(* (confidence in tenths), and decimal counter strings are digit           *)
(* sequences.                                                              *)
(***************************************************************************)
EXTENDS Integers, Sequences, FiniteSets, TLC

VARIABLES
    nodes,        \* rows of the five node relations
    edges,        \* rows of the six edge relations
    invalidates,  \* rows of mie_invalidates
    meta,         \* rows of mie_meta: key -> decimal string
    nextTok,      \* next unused identifier token
    pc,           \* "idle" | "done": position of the tool dispatcher
    req,          \* the tool call being answered
    resp,         \* its result
    calls,        \* the engine calls the handler made, in order
    inc,          \* per caller: position and locals inside IncrementCounter
    eng,          \* embedding rows, and per caller the invalidate_fact in flight
    wire          \* the JSON-RPC stream: last line read, what was written for it

vars == <<nodes, edges, invalidates, meta, nextTok, pc, req, resp, calls, inc, eng, wire>>

graph == <<nodes, edges, invalidates>>

-----------------------------------------------------------------------------
(* Bounds of the model *)

\* Nodes the graph holds at most: the store tools are called while there
\* is room, with batches no longer than the room left.
MaxNodes == 2

\* Concurrent callers of IncrementCounter, and calls each of them makes.
NumCallers == 2

MaxIncs == 2

\* Queries counted by total_queries over one run.
MaxQueries == 1

-----------------------------------------------------------------------------
(* Program constants *)

maxBulkItems == 50

validFactCategories ==
    {"personal", "professional", "preference", "technical", "relationship", "general"}

validEntityKinds ==
    {"person", "company", "project", "product", "technology", "place", "other"}

validEdgeTypes ==
    {"fact_entity", "fact_topic", "decision_topic",
     "decision_entity", "event_decision", "entity_topic"}

-----------------------------------------------------------------------------
(* Values *)

EmptyStr == <<>>

\* The empty identifier string "".
NoId == [prefix |-> "", tok |-> 0]

Id(p, n) == [prefix |-> p, tok |-> n]

\* strings.HasPrefix(id, p), for an identifier written prefix + token.
HasPrefix(id, p) == id.prefix = p

\* The identifier prefix of each node variant.
Prefix(nodeType) ==
    CASE nodeType = "fact"     -> "fact:"
      [] nodeType = "decision" -> "dec:"
      [] nodeType = "entity"   -> "ent:"
      [] nodeType = "event"    -> "evt:"
      [] nodeType = "topic"    -> "top:"
      [] OTHER                 -> ""

\* GetStringArg / GetFloat64Arg: the value under key, or the default.
GetStringArg(args, key, default) ==
    IF key \in DOMAIN args THEN args[key] ELSE default

GetFloat64Arg(args, key, default) ==
    IF key \in DOMAIN args THEN args[key] ELSE default

\* raw.(map[string]any): whether a JSON value is an object.
IsObject(raw) == "nonobject" \notin DOMAIN raw

\* strings.ToLower on characters: 11.. are the upper-case forms of 1..
ToLowerChar(c) == IF c > 10 THEN c - 10 ELSE c

ToLower(s) == [i \in 1..Len(s) |-> ToLowerChar(s[i])]

-----------------------------------------------------------------------------
(* The engine.  e is the engine state threaded through one handler:       *)
(* [nodes, edges, invalidates, meta, nextTok, calls].                      *)

Logged(e, call) == [e EXCEPT !.calls = Append(@, call)]

\* Writer.StoreFact .. StoreTopic: allocate an id, insert the row
\* (valid = true for facts, status = active for decisions).
WriterStore(e, nodeType, data, fail) ==
    LET id == Id(Prefix(nodeType), e.nextTok) IN
    IF fail
    THEN [e   |-> Logged(e, [op |-> "Store", nodeType |-> nodeType, id |-> NoId]),
          id  |-> NoId,
          err |-> "substrate-error"]
    ELSE [e   |-> [Logged(e, [op |-> "Store", nodeType |-> nodeType, id |-> id])
                     EXCEPT !.nodes = @ \cup {[id |-> id, nodeType |-> nodeType,
                                              valid |-> TRUE,
                                              status |-> IF nodeType = "decision"
                                                         THEN "active" ELSE "",
                                              data |-> data]},
                            !.nextTok = @ + 1],
          id  |-> id,
          err |-> ""]

IsFact(e, id) == \E n \in e.nodes : n.id = id /\ n.nodeType = "fact"

\* Second substrate operation of an invalidation: the invalidates row,
\* keyed by (new_fact_id, old_fact_id), is put.
InsertInvalidates(e, oldFactID, newFactID, reason) ==
    [e EXCEPT !.invalidates =
        {x \in @ : ~(x.new_fact_id = newFactID /\ x.old_fact_id = oldFactID)}
        \cup {[new_fact_id |-> newFactID, old_fact_id |-> oldFactID,
               reason |-> reason]}]

\* Variant of the first substrate operation that puts the invalidates row
\* instead of updating the old fact.
MarkInvalidEdgeFirst(e, oldFactID, newFactID, reason) ==
    InsertInvalidates(e, oldFactID, newFactID, reason)

\* First substrate operation of an invalidation: the old fact's row is
\* updated to valid = false.
MarkInvalid(e, oldFactID, newFactID, reason) ==
    [e EXCEPT !.nodes = {IF n.id = oldFactID THEN [n EXCEPT !.valid = FALSE] ELSE n
                         : n \in @}]

\* Writer.InvalidateFact: both ids must refer to existing facts; sets
\* old.valid = false and writes the invalidates(new, old) row.
WriterInvalidateFact(e, oldFactID, newFactID, reason, fail) ==
    LET call == [op |-> "InvalidateFact", old |-> oldFactID,
                 new |-> newFactID, reason |-> reason]
        e1 == Logged(e, call)
    IN
    IF fail THEN [e |-> e1, err |-> "substrate-error"]
    ELSE IF ~IsFact(e, oldFactID) \/ ~IsFact(e, newFactID)
    THEN [e |-> e1, err |-> "not-found"]
    ELSE [e |-> InsertInvalidates(MarkInvalid(e1, oldFactID, newFactID, reason),
                                  oldFactID, newFactID, reason),
          err |-> ""]

\* Writer.AddRelationship: inserts the edge row; rejects an unknown table;
\* does not look at the endpoints.
WriterAddRelationship(e, tableName, fields, fail) ==
    LET call == [op |-> "AddRelationship", tableName |-> tableName, fields |-> fields]
        e1 == Logged(e, call)
    IN
    IF fail THEN [e |-> e1, err |-> "substrate-error"]
    ELSE IF tableName \notin {<<"mie_", t>> : t \in validEdgeTypes}
    THEN [e |-> e1, err |-> "invalid-argument"]
    ELSE [e |-> [e1 EXCEPT !.edges = @ \cup {[tableName |-> tableName, fields |-> fields]}],
          err |-> ""]

-----------------------------------------------------------------------------
(* Client.IncrementCounter *)

RECURSIVE DigitsValue(_)
DigitsValue(s) ==
    IF s = <<>> THEN 0
    ELSE DigitsValue(SubSeq(s, 1, Len(s) - 1)) * 10 + s[Len(s)]

\* strconv.Atoi on a digit string: fails on the empty string and on any
\* character that is not a digit.
Atoi(s) ==
    IF s = <<>> \/ \E i \in 1..Len(s) : s[i] \notin 0..9
    THEN [ok |-> FALSE, v |-> 0]
    ELSE [ok |-> TRUE, v |-> DigitsValue(s)]

\* strconv.Itoa of a natural number.
RECURSIVE Itoa(_)
Itoa(n) == IF n < 10 THEN <<n>> ELSE Itoa(n \div 10) \o <<n % 10>>

\* time.Now().Unix() rendered as a decimal string.
NowStr == <<1, 7>>

\* Lines 253-261: read the stored value; 0 when the read fails, when there
\* is no row, or when the value does not parse.
CounterCurrent(m, key, readFails) ==
    IF ~readFails /\ key \in DOMAIN m /\ Atoi(m[key]).ok
    THEN Atoi(m[key]).v
    ELSE 0

\* Lines 264-268: put key => Itoa(current + 1).
CounterPut(m, key, current) == (key :> Itoa(current + 1)) @@ m

\* Lines 274-280.
TimestampKey(key) ==
    CASE key = "total_queries" -> "last_query_at"
      [] key = "total_stores"  -> "last_store_at"
      [] OTHER                 -> ""

\* Lines 281-289: best-effort timestamp write.
CounterStamp(m, key) ==
    IF TimestampKey(key) # "" THEN (TimestampKey(key) :> NowStr) @@ m ELSE m

\* The whole of IncrementCounter, run without interruption.  f.incRead and
\* f.incWrite say whether the read query and the write statement fail.
IncrementCounter(e, key, f) ==
    LET e1 == Logged(e, [op |-> "IncrementCounter", key |-> key])
        current == CounterCurrent(e.meta, key, f.incRead)
    IN
    IF f.incWrite
    THEN [e |-> e1, err |-> "increment counter"]
    ELSE [e |-> [e1 EXCEPT !.meta = CounterStamp(CounterPut(@, key, current), key)],
          err |-> ""]

-----------------------------------------------------------------------------
(* pkg/tools/store.go *)

\* A failed step of storeNode: no id, an error.
StoreErr(e, msg) == [e |-> e, id |-> NoId, err |-> msg]

\* Variant of storeFact that hands category and confidence on as given.
storeFactUncoerced(e, args, fail) ==
    LET content == GetStringArg(args, "content", EmptyStr) IN
    IF content = EmptyStr THEN StoreErr(e, "content is required for fact type")
    ELSE WriterStore(e, "fact",
                     [content |-> content,
                      category |-> GetStringArg(args, "category", "general"),
                      confidence |-> GetFloat64Arg(args, "confidence", 8)], fail)

storeFact(e, args, fail) ==
    LET content == GetStringArg(args, "content", EmptyStr)
        category0 == GetStringArg(args, "category", "general")
        category == IF category0 \in validFactCategories THEN category0 ELSE "general"
        confidence0 == GetFloat64Arg(args, "confidence", 8)
        confidence == IF confidence0 <= 0 \/ confidence0 > 10 THEN 8 ELSE confidence0
    IN
    IF content = EmptyStr THEN StoreErr(e, "content is required for fact type")
    ELSE WriterStore(e, "fact",
                     [content |-> content, category |-> category,
                      confidence |-> confidence], fail)

\* Variant of storeDecision without the check of the rationale.
storeDecisionNoRationale(e, args, fail) ==
    LET title == GetStringArg(args, "title", EmptyStr)
        rationale == GetStringArg(args, "rationale", EmptyStr)
    IN
    IF title = EmptyStr THEN StoreErr(e, "title is required for decision type")
    ELSE WriterStore(e, "decision", [title |-> title, rationale |-> rationale], fail)

storeDecision(e, args, fail) ==
    LET title == GetStringArg(args, "title", EmptyStr)
        rationale == GetStringArg(args, "rationale", EmptyStr)
    IN
    IF title = EmptyStr THEN StoreErr(e, "title is required for decision type")
    ELSE IF rationale = EmptyStr THEN StoreErr(e, "rationale is required for decision type")
    ELSE WriterStore(e, "decision", [title |-> title, rationale |-> rationale], fail)

storeEntity(e, args, fail) ==
    LET name == GetStringArg(args, "name", EmptyStr)
        kind == GetStringArg(args, "kind", "")
    IN
    IF name = EmptyStr THEN StoreErr(e, "name is required for entity type")
    ELSE IF kind = "" THEN StoreErr(e, "kind is required for entity type")
    ELSE IF kind \notin validEntityKinds THEN StoreErr(e, "invalid entity kind")
    ELSE WriterStore(e, "entity",
                     [name |-> name, kind |-> kind,
                      description |-> GetStringArg(args, "description", EmptyStr)], fail)

storeEvent(e, args, fail) ==
    LET title == GetStringArg(args, "title", EmptyStr)
        eventDate == GetStringArg(args, "event_date", EmptyStr)
    IN
    IF title = EmptyStr THEN StoreErr(e, "title is required for event type")
    ELSE IF eventDate = EmptyStr THEN StoreErr(e, "event_date is required for event type")
    ELSE WriterStore(e, "event",
                     [title |-> title, event_date |-> eventDate,
                      description |-> GetStringArg(args, "description", EmptyStr)], fail)

storeTopic(e, args, fail) ==
    LET name == GetStringArg(args, "name", EmptyStr) IN
    IF name = EmptyStr THEN StoreErr(e, "name is required for topic type")
    ELSE WriterStore(e, "topic",
                     [name |-> ToLower(name),
                      description |-> GetStringArg(args, "description", EmptyStr)], fail)

\* storeNode: dispatch on the type; an unknown type gives no id and no error.
storeNode(e, args, nodeType, fail) ==
    CASE nodeType = "fact"     -> storeFact(e, args, fail)
      [] nodeType = "decision" -> storeDecision(e, args, fail)
      [] nodeType = "entity"   -> storeEntity(e, args, fail)
      [] nodeType = "event"    -> storeEvent(e, args, fail)
      [] nodeType = "topic"    -> storeTopic(e, args, fail)
      [] OTHER                 -> [e |-> e, id |-> NoId, err |-> ""]

\* fmt.Sprintf("Replaced by %s", nodeID)
ReplacedBy(nodeID) == [text |-> "Replaced by ", id |-> nodeID]

\* handleInvalidation: toolErr is "" for nil; msg says whether an
\* "Invalidated: ..." message is returned.
handleInvalidation(e, args, nodeID, fail) ==
    LET invalidatesArg == GetStringArg(args, "invalidates", NoId) IN
    IF invalidatesArg = NoId
    THEN [e |-> e, toolErr |-> "", msg |-> FALSE]
    ELSE IF ~HasPrefix(invalidatesArg, "fact:")
    THEN [e |-> e, toolErr |-> "invalidates must reference a fact ID", msg |-> FALSE]
    ELSE LET r == WriterInvalidateFact(e, invalidatesArg, nodeID, ReplacedBy(nodeID), fail) IN
         IF r.err # ""
         THEN [e |-> r.e, toolErr |-> "Failed to invalidate fact", msg |-> FALSE]
         ELSE [e |-> r.e, toolErr |-> "", msg |-> TRUE]

buildEdgeFields(edgeType, sourceNodeID, targetID, relMap) ==
    CASE edgeType = "fact_entity" ->
            [fact_id |-> sourceNodeID, entity_id |-> targetID]
      [] edgeType = "fact_topic" ->
            [fact_id |-> sourceNodeID, topic_id |-> targetID]
      [] edgeType = "decision_topic" ->
            [decision_id |-> sourceNodeID, topic_id |-> targetID]
      [] edgeType = "decision_entity" ->
            IF GetStringArg(relMap, "role", "") # ""
            THEN [decision_id |-> sourceNodeID, entity_id |-> targetID,
                  role |-> GetStringArg(relMap, "role", "")]
            ELSE [decision_id |-> sourceNodeID, entity_id |-> targetID]
      [] edgeType = "event_decision" ->
            [event_id |-> sourceNodeID, decision_id |-> targetID]
      [] edgeType = "entity_topic" ->
            [entity_id |-> sourceNodeID, topic_id |-> targetID]
      [] OTHER -> [none |-> TRUE]

\* storeRelationships: one pass over the list; msgs is the text written,
\* one entry per line.
RECURSIVE storeRelationships(_, _, _, _, _)
storeRelationships(e, sourceNodeID, rels, k, fail) ==
    IF k > Len(rels) THEN [e |-> e, msgs |-> <<>>]
    ELSE
    LET relMap == rels[k]
        edgeType == GetStringArg(relMap, "edge", "")
        targetID == GetStringArg(relMap, "target_id", NoId)
        rest(e1, line) ==
            LET r == storeRelationships(e1, sourceNodeID, rels, k + 1, fail) IN
            [e |-> r.e, msgs |-> line \o r.msgs]
    IN
    IF ~IsObject(relMap) THEN rest(e, <<>>)
    ELSE IF edgeType = "" \/ targetID = NoId THEN rest(e, <<>>)
    ELSE IF edgeType \notin validEdgeTypes
    THEN rest(e, <<[line |-> "Skipped invalid edge type", edge |-> edgeType, target |-> NoId]>>)
    ELSE LET fields == buildEdgeFields(edgeType, sourceNodeID, targetID, relMap)
             w == WriterAddRelationship(e, <<"mie_", edgeType>>, fields, fail)
         IN
         IF w.err # ""
         THEN rest(w.e, <<[line |-> "Failed", edge |-> edgeType, target |-> targetID]>>)
         ELSE rest(w.e, <<[line |-> "Created", edge |-> edgeType, target |-> targetID]>>)

NewError(text) == [isError |-> TRUE, text |-> text]

NewResult(text) == [isError |-> FALSE, text |-> text]

\* Variant of Store that reports a failed counter increment as a failure
\* of the store.
StoreCounterFatal(e, args, f) ==
    LET nodeType == GetStringArg(args, "type", "")
        s == storeNode(e, args, nodeType, 1 \in f.store)
        h == handleInvalidation(s.e, args, s.id, f.inval)
        hasRels == "relationships" \in DOMAIN args
        r == IF hasRels
             THEN storeRelationships(h.e, s.id, args["relationships"], 1, f.edge)
             ELSE [e |-> h.e, msgs |-> <<>>]
        c == IncrementCounter(r.e, "total_stores", f)
    IN
    IF nodeType = ""
    THEN [e |-> e, result |-> NewError(<<"Missing required parameter: type">>)]
    ELSE IF s.err # ""
    THEN [e |-> s.e, result |-> NewError(<<"Failed to store", s.err>>)]
    ELSE IF s.id = NoId
    THEN [e |-> s.e, result |-> NewError(<<"Invalid type">>)]
    ELSE IF h.toolErr # ""
    THEN [e |-> h.e, result |-> NewError(<<h.toolErr>>)]
    ELSE IF c.err # ""
    THEN [e |-> c.e, result |-> NewError(<<c.err>>)]
    ELSE [e |-> c.e,
          result |-> NewResult([stored |-> <<[nodeID |-> s.id, nodeType |-> nodeType]>>,
                                rels |-> r.msgs,
                                invalidated |-> h.msg])]

\* Variant of Store that goes on to the relationships after a failed
\* invalidation, as BulkStore does for its items.
StoreRelationshipsAnyway(e, args, f) ==
    LET nodeType == GetStringArg(args, "type", "")
        s == storeNode(e, args, nodeType, 1 \in f.store)
        h == handleInvalidation(s.e, args, s.id, f.inval)
        hasRels == "relationships" \in DOMAIN args
        r == IF hasRels
             THEN storeRelationships(h.e, s.id, args["relationships"], 1, f.edge)
             ELSE [e |-> h.e, msgs |-> <<>>]
        c == IncrementCounter(r.e, "total_stores", f)
    IN
    IF nodeType = ""
    THEN [e |-> e, result |-> NewError(<<"Missing required parameter: type">>)]
    ELSE IF s.err # ""
    THEN [e |-> s.e, result |-> NewError(<<"Failed to store", s.err>>)]
    ELSE IF s.id = NoId
    THEN [e |-> s.e, result |-> NewError(<<"Invalid type">>)]
    ELSE IF h.toolErr # ""
    THEN [e |-> r.e, result |-> NewError(<<h.toolErr>>)]
    ELSE [e |-> c.e,
          result |-> NewResult([stored |-> <<[nodeID |-> s.id, nodeType |-> nodeType]>>,
                                rels |-> r.msgs,
                                invalidated |-> h.msg])]

\* Store: the mie_store handler.  f names the engine calls that fail.
Store(e, args, f) ==
    LET nodeType == GetStringArg(args, "type", "")
        s == storeNode(e, args, nodeType, 1 \in f.store)
        h == handleInvalidation(s.e, args, s.id, f.inval)
        hasRels == "relationships" \in DOMAIN args
        r == IF hasRels
             THEN storeRelationships(h.e, s.id, args["relationships"], 1, f.edge)
             ELSE [e |-> h.e, msgs |-> <<>>]
        c == IncrementCounter(r.e, "total_stores", f)
    IN
    IF nodeType = ""
    THEN [e |-> e, result |-> NewError(<<"Missing required parameter: type">>)]
    ELSE IF s.err # ""
    THEN [e |-> s.e, result |-> NewError(<<"Failed to store", s.err>>)]
    ELSE IF s.id = NoId
    THEN [e |-> s.e, result |-> NewError(<<"Invalid type">>)]
    ELSE IF h.toolErr # ""
    THEN [e |-> h.e, result |-> NewError(<<h.toolErr>>)]
    ELSE [e |-> c.e,
          result |-> NewResult([stored |-> <<[nodeID |-> s.id, nodeType |-> nodeType]>>,
                                rels |-> r.msgs,
                                invalidated |-> h.msg])]

-----------------------------------------------------------------------------
(* mie_bulk_store *)

NodeTypes == {"fact", "decision", "entity", "event", "topic"}

\* toInt: a JSON number (a whole float64) as an int; -1 for anything else.
toInt(v) == IF v.num THEN v.v ELSE -1

\* Variant of resolveBatchRefs that gives up at the first target_ref it
\* cannot resolve instead of going on to the next relationship.
RECURSIVE resolveBatchRefsStops(_, _, _)
resolveBatchRefsStops(rels, stored, k) ==
    IF k > Len(rels) THEN <<>>
    ELSE
    LET relMap == rels[k]
        idx == toInt(relMap["target_ref"])
        rest == resolveBatchRefsStops(rels, stored, k + 1)
    IN
    IF ~IsObject(relMap) THEN rest
    ELSE IF "target_ref" \in DOMAIN relMap
    THEN IF idx < 0 \/ idx >= Len(stored) \/ stored[idx + 1].nodeID = NoId
         THEN <<>>
         ELSE <<[edge      |-> GetStringArg(relMap, "edge", ""),
                 target_id |-> stored[idx + 1].nodeID,
                 role      |-> GetStringArg(relMap, "role", "")]>> \o rest
    ELSE <<relMap>> \o rest

\* resolveBatchRefs: target_ref indexes are 0-based, stored is 1-based here.
RECURSIVE resolveBatchRefs(_, _, _)
resolveBatchRefs(rels, stored, k) ==
    IF k > Len(rels) THEN <<>>
    ELSE
    LET relMap == rels[k]
        idx == toInt(relMap["target_ref"])
        rest == resolveBatchRefs(rels, stored, k + 1)
    IN
    IF ~IsObject(relMap) THEN rest
    ELSE IF "target_ref" \in DOMAIN relMap
    THEN IF idx < 0 \/ idx >= Len(stored) \/ stored[idx + 1].nodeID = NoId
         THEN rest
         ELSE <<[edge      |-> GetStringArg(relMap, "edge", ""),
                 target_id |-> stored[idx + 1].nodeID,
                 role      |-> GetStringArg(relMap, "role", "")]>> \o rest
    ELSE <<relMap>> \o rest

\* The body of the Phase 1 loop (lines 37-64) for item i: store the node,
\* record its id or its error.  st = [e, stored, errors, typeCounts].
BulkPhase1Item(itemSlice, i, st, f) ==
    LET raw == itemSlice[i]
        nodeType == GetStringArg(raw, "type", "")
        s == storeNode(st.e, raw, nodeType, i \in f.store)
        failed(e1, kind) ==
            [st EXCEPT !.e = e1,
                       !.errors = Append(@, [idx |-> i - 1, kind |-> kind])]
    IN
    IF ~IsObject(raw) THEN failed(st.e, "not a valid object")
    ELSE IF nodeType = "" THEN failed(st.e, "missing required parameter: type")
    ELSE IF s.err # "" THEN failed(s.e, s.err)
    ELSE IF s.id = NoId THEN failed(s.e, "invalid type")
    ELSE [st EXCEPT !.e = s.e,
                    !.stored[i] = [nodeID |-> s.id, nodeType |-> nodeType],
                    !.typeCounts[nodeType] = @ + 1]

\* Variant of Phase 1 that leaves the loop at the first item that fails.
RECURSIVE BulkPhase1Aborts(_, _, _, _)
BulkPhase1Aborts(itemSlice, i, st, f) ==
    IF i > Len(itemSlice) THEN st
    ELSE LET st1 == BulkPhase1Item(itemSlice, i, st, f) IN
         IF Len(st1.errors) > Len(st.errors) THEN st1
         ELSE BulkPhase1Aborts(itemSlice, i + 1, st1, f)

\* Variant of Phase 1 that issues an item's invalidation and relationships
\* right after storing it, before the next item is stored.
RECURSIVE BulkPhase1Interleaved(_, _, _, _)
BulkPhase1Interleaved(itemSlice, i, st, f) ==
    IF i > Len(itemSlice) THEN st
    ELSE
    LET st1 == BulkPhase1Item(itemSlice, i, st, f)
        nodeID == st1.stored[i].nodeID
        h == handleInvalidation(st1.e, itemSlice[i], nodeID, f.inval)
        r == IF "relationships" \in DOMAIN itemSlice[i]
             THEN storeRelationships(h.e, nodeID,
                      resolveBatchRefs(itemSlice[i]["relationships"], st1.stored, 1),
                      1, f.edge)
             ELSE [e |-> h.e, msgs |-> <<>>]
    IN
    BulkPhase1Interleaved(itemSlice, i + 1,
        IF nodeID = NoId THEN st1 ELSE [st1 EXCEPT !.e = r.e], f)

\* Phase 1 (lines 36-65): store every node, in input order.
RECURSIVE BulkPhase1(_, _, _, _)
BulkPhase1(itemSlice, i, st, f) ==
    IF i > Len(itemSlice) THEN st
    ELSE BulkPhase1(itemSlice, i + 1, BulkPhase1Item(itemSlice, i, st, f), f)

\* Phase 2 (lines 67-90): invalidations and relationships of stored items.
\* st = [e, stored, errors, relMessages].
RECURSIVE BulkPhase2(_, _, _, _)
BulkPhase2(itemSlice, i, st, f) ==
    IF i > Len(itemSlice) THEN st
    ELSE
    LET item == st.stored[i]
        itemArgs == itemSlice[i]
        h == handleInvalidation(st.e, itemArgs, item.nodeID, f.inval)
        st1 == [st EXCEPT
                  !.e = h.e,
                  !.errors = IF h.toolErr # ""
                             THEN Append(@, [idx |-> i - 1, kind |-> "invalidation"])
                             ELSE @,
                  !.relMessages = IF h.toolErr = "" /\ h.msg
                                  THEN Append(@, [idx |-> i - 1, msgs |-> <<"Invalidated">>])
                                  ELSE @]
        resolved == resolveBatchRefs(itemArgs["relationships"], st.stored, 1)
        r == storeRelationships(st1.e, item.nodeID, resolved, 1, f.edge)
        st2 == IF "relationships" \in DOMAIN itemArgs
               THEN [st1 EXCEPT
                       !.e = r.e,
                       !.relMessages = IF r.msgs # <<>>
                                       THEN Append(@, [idx |-> i - 1, msgs |-> r.msgs])
                                       ELSE @]
               ELSE st1
    IN
    BulkPhase2(itemSlice, i + 1, IF item.nodeID = NoId THEN st ELSE st2, f)

\* Lines 109-111: one IncrementCounter per stored node.
RECURSIVE BulkCounters(_, _, _)
BulkCounters(e, n, f) ==
    IF n = 0 THEN e ELSE BulkCounters(IncrementCounter(e, "total_stores", f).e, n - 1, f)

RECURSIVE SumCounts(_, _)
SumCounts(typeCounts, types) ==
    IF types = {} THEN 0
    ELSE LET t == CHOOSE x \in types : TRUE IN
         typeCounts[t] + SumCounts(typeCounts, types \ {t})

\* Variant of the checks on the item list that lets an empty list through.
BulkValidateAllowsEmpty(args) ==
    IF "items" \notin DOMAIN args \/ args["items"].kind = "null"
    THEN "Missing required parameter: items"
    ELSE IF args["items"].kind # "array"
    THEN "items must be a non-empty array"
    ELSE IF Len(args["items"].elems) > maxBulkItems
    THEN "Too many items"
    ELSE ""

\* Lines 24-34: the checks on the item list; "" when it is accepted.
BulkValidate(args) ==
    IF "items" \notin DOMAIN args \/ args["items"].kind = "null"
    THEN "Missing required parameter: items"
    ELSE IF args["items"].kind # "array" \/ Len(args["items"].elems) = 0
    THEN "items must be a non-empty array"
    ELSE IF Len(args["items"].elems) > maxBulkItems
    THEN "Too many items"
    ELSE ""

\* BulkStore: the mie_bulk_store handler.
BulkStore(e, args, f) ==
    LET rawItems == args["items"]
        itemSlice == rawItems.elems
        p1 == BulkPhase1(itemSlice, 1,
                         [e |-> e,
                          stored |-> [i \in 1..Len(itemSlice) |->
                                        [nodeID |-> NoId, nodeType |-> ""]],
                          errors |-> <<>>,
                          typeCounts |-> [t \in NodeTypes |-> 0]], f)
        p2 == BulkPhase2(itemSlice, 1,
                         [e |-> p1.e, stored |-> p1.stored, errors |-> p1.errors,
                          relMessages |-> <<>>], f)
        totalStored == SumCounts(p1.typeCounts, NodeTypes)
    IN
    IF BulkValidate(args) # ""
    THEN [e |-> e, result |-> NewError(<<BulkValidate(args)>>)]
    ELSE [e |-> BulkCounters(p2.e, totalStored, f),
          result |-> NewResult([stored |-> p2.stored,
                                totalStored |-> totalStored,
                                typeCounts |-> p1.typeCounts,
                                rels |-> p2.relMessages,
                                errors |-> p2.errors])]

-----------------------------------------------------------------------------
(* Reader (exact search, traversals) and pkg/tools/query.go *)

\* str_includes(text, q): q occurs in text as a substring.
StrIncludes(text, q) ==
    \E i \in 0..(Len(text) - Len(q)) : SubSeq(text, i + 1, i + Len(q)) = q

\* The text fields exact search looks at, per variant.
SearchFields(n) ==
    CASE n.nodeType = "fact"     -> {n.data.content}
      [] n.nodeType = "decision" -> {n.data.title, n.data.rationale}
      [] n.nodeType = "entity"   -> {n.data.name, n.data.description}
      [] n.nodeType = "event"    -> {n.data.title, n.data.description}
      [] n.nodeType = "topic"    -> {n.data.name, n.data.description}

\* Rows come back in key order; :limit keeps the first ones.
RECURSIVE InKeyOrder(_)
InKeyOrder(rows) ==
    IF rows = {} THEN <<>>
    ELSE LET first == CHOOSE r \in rows : \A o \in rows : r.id.tok <= o.id.tok IN
         <<first>> \o InKeyOrder(rows \ {first})

Truncated(seq, limit) == IF Len(seq) > limit THEN SubSeq(seq, 1, limit) ELSE seq

Range(seq) == {seq[i] : i \in 1..Len(seq)}

ExactRows(e, nt, query) ==
    {n \in e.nodes : /\ n.nodeType = nt
                     /\ nt = "fact" => n.valid
                     /\ \E t \in SearchFields(n) : StrIncludes(t, query)}

\* Reader.ExactSearch: a variant whose query fails is logged and skipped.
RECURSIVE ExactSearchTypes(_, _, _, _, _, _)
ExactSearchTypes(e, query, nodeTypes, k, limit, fail) ==
    IF k > Len(nodeTypes) THEN <<>>
    ELSE
    LET nt == nodeTypes[k]
        rows == Truncated(InKeyOrder(ExactRows(e, nt, query)), limit)
        found == [i \in 1..Len(rows) |-> [nodeType |-> nt, id |-> rows[i].id]]
        rest == ExactSearchTypes(e, query, nodeTypes, k + 1, limit, fail)
    IN
    IF nt \notin NodeTypes \/ fail THEN rest ELSE found \o rest

ExactSearch(e, query, nodeTypes, limit0, fail) ==
    LET limit == IF limit0 <= 0 THEN 10 ELSE limit0
        types == IF Len(nodeTypes) = 0
                 THEN <<"fact", "decision", "entity", "event", "topic">>
                 ELSE nodeTypes
    IN
    [results |-> Truncated(ExactSearchTypes(e, query, types, 1, limit, fail), limit),
     err |-> ""]

\* Variant of GetRelatedEntities whose join takes the two columns of
\* fact_entity the wrong way round.
GetRelatedEntitiesSwapped(e, factID, fail) ==
    IF fail THEN [rows |-> {}, err |-> "get related entities"]
    ELSE [rows |-> {n.id : n \in {m \in e.nodes :
                        /\ m.nodeType = "entity"
                        /\ \E r \in e.edges :
                              /\ r.tableName = <<"mie_", "fact_entity">>
                              /\ r.fields.entity_id = factID
                              /\ r.fields.fact_id = m.id}},
          err |-> ""]

\* Reader.GetRelatedEntities: entities joined to the fact through fact_entity.
GetRelatedEntities(e, factID, fail) ==
    IF fail THEN [rows |-> {}, err |-> "get related entities"]
    ELSE [rows |-> {n.id : n \in {m \in e.nodes :
                        /\ m.nodeType = "entity"
                        /\ \E r \in e.edges :
                              /\ r.tableName = <<"mie_", "fact_entity">>
                              /\ r.fields.fact_id = factID
                              /\ r.fields.entity_id = m.id}},
          err |-> ""]

\* Reader.GetFactsAboutEntity: facts joined to the entity through fact_entity.
GetFactsAboutEntity(e, entityID, fail) ==
    IF fail THEN [rows |-> {}, err |-> "get facts about entity"]
    ELSE [rows |-> {n.id : n \in {m \in e.nodes :
                        /\ m.nodeType = "fact"
                        /\ \E r \in e.edges :
                              /\ r.tableName = <<"mie_", "fact_entity">>
                              /\ r.fields.entity_id = entityID
                              /\ r.fields.fact_id = m.id}},
          err |-> ""]

\* nodeTypeToTable: "" for a node type that has no relation.
nodeTypeToTable(nodeType) ==
    IF nodeType \in NodeTypes THEN <<"mie_", nodeType>> ELSE ""

\* buildListConditions: the filters of a list query, as a predicate on rows.
buildListConditions(opts, n) ==
    CASE opts.NodeType = "fact" ->
            /\ opts.Category # "" => n.data.category = opts.Category
            /\ opts.ValidOnly => n.valid
      [] opts.NodeType = "decision" -> opts.Status # "" => n.status = opts.Status
      [] opts.NodeType = "entity" -> opts.Kind # "" => n.data.kind = opts.Kind
      [] OTHER -> TRUE

\* Rows of one variant that pass the filters.
ListMatches(e, opts) ==
    {n \in e.nodes : n.nodeType = opts.NodeType /\ buildListConditions(opts, n)}

\* :order created_at / -created_at: creation order is the order of tokens.
RECURSIVE Ordered(_, _)
Ordered(rows, asc) ==
    IF rows = {} THEN <<>>
    ELSE LET first == CHOOSE r \in rows : \A o \in rows :
                         IF asc THEN r.id.tok <= o.id.tok ELSE r.id.tok >= o.id.tok
         IN <<first>> \o Ordered(rows \ {first}, asc)

\* :limit l :offset o on an ordered result.
Page(seq, limit, offset) ==
    SubSeq(seq, offset + 1, IF offset + limit < Len(seq) THEN offset + limit ELSE Len(seq))

\* columnsForNodeType: the columns the row query binds for a variant.
columnsForNodeType(nodeType) ==
    CASE nodeType = "fact" ->
           {"id", "content", "category", "confidence", "source_agent",
            "source_conversation", "valid", "created_at", "updated_at"}
      [] nodeType = "decision" ->
           {"id", "title", "rationale", "alternatives", "context", "source_agent",
            "source_conversation", "status", "created_at", "updated_at"}
      [] nodeType = "entity" ->
           {"id", "name", "kind", "description", "source_agent", "created_at",
            "updated_at"}
      [] nodeType = "event" ->
           {"id", "title", "description", "event_date", "source_agent",
            "source_conversation", "created_at", "updated_at"}
      [] nodeType = "topic" -> {"id", "name", "description", "created_at", "updated_at"}
      [] OTHER -> {"id"}

\* The column ListNodes writes after :order, opts.SortBy verbatim unless it
\* is empty.
SortColumn(opts) == IF opts.SortBy = "" THEN "created_at" ELSE opts.SortBy

\* The row query runs only if its :order column is one the rule binds; the
\* substrate rejects a script that orders by an unbound variable.
OrderBound(opts) == SortColumn(opts) \in columnsForNodeType(opts.NodeType)

\* Variant of ListNodes that leaves the valid filter out of the row query.
ListNodesUnfiltered(e, opts, fail) ==
    LET limit == IF opts.Limit <= 0 THEN 20 ELSE opts.Limit
        rows == {n \in e.nodes : n.nodeType = opts.NodeType}
    IN
    IF nodeTypeToTable(opts.NodeType) = ""
    THEN [nodes |-> <<>>, total |-> 0, err |-> "unknown node type"]
    ELSE IF fail = "rows" \/ ~OrderBound(opts)
    THEN [nodes |-> <<>>, total |-> 0, err |-> "list nodes"]
    ELSE IF fail = "count" THEN [nodes |-> <<>>, total |-> 0, err |-> "count nodes"]
    ELSE [nodes |-> Page(Ordered(rows, opts.SortOrder = "asc"), limit, opts.Offset),
          total |-> Cardinality(ListMatches(e, opts)),
          err |-> ""]

\* Reader.ListNodes: the row query, then the count query (countNodes).
ListNodes(e, opts, fail) ==
    LET limit == IF opts.Limit <= 0 THEN 20 ELSE opts.Limit
        rows == ListMatches(e, opts)
    IN
    IF nodeTypeToTable(opts.NodeType) = ""
    THEN [nodes |-> <<>>, total |-> 0, err |-> "unknown node type"]
    ELSE IF fail = "rows" \/ ~OrderBound(opts)
    THEN [nodes |-> <<>>, total |-> 0, err |-> "list nodes"]
    ELSE IF fail = "count" THEN [nodes |-> <<>>, total |-> 0, err |-> "count nodes"]
    ELSE [nodes |-> Page(Ordered(rows, opts.SortOrder = "asc"), limit, opts.Offset),
          total |-> Cardinality(rows),
          err |-> ""]

\* Reader.GetNodeByID: the variant is read off the prefix; found says
\* whether a row came back.
GetNodeByID(e, nodeID, fail) ==
    LET hits == {n \in e.nodes : n.id = nodeID /\ Prefix(n.nodeType) = nodeID.prefix} IN
    IF fail THEN [found |-> FALSE, node |-> [none |-> TRUE], err |-> "substrate-error"]
    ELSE IF hits = {} THEN [found |-> FALSE, node |-> [none |-> TRUE], err |-> "not found"]
    ELSE [found |-> TRUE, node |-> CHOOSE n \in hits : TRUE, err |-> ""]

\* Variant of GetInvalidationChain with the first rule only
\* (new_fact_id = factID).
GetInvalidationChainNewOnly(e, factID, fail) ==
    LET content(id) == (CHOOSE n \in e.nodes : n.id = id /\ n.nodeType = "fact").data.content IN
    IF fail THEN [rows |-> {}, err |-> "get invalidation chain"]
    ELSE [rows |-> {[new_fact_id |-> r.new_fact_id, old_fact_id |-> r.old_fact_id,
                     reason |-> r.reason,
                     old_content |-> content(r.old_fact_id),
                     new_content |-> content(r.new_fact_id)]
                    : r \in {x \in e.invalidates :
                               /\ x.new_fact_id = factID
                               /\ IsFact(e, x.old_fact_id)
                               /\ IsFact(e, x.new_fact_id)}},
          err |-> ""]

\* Reader.GetInvalidationChain: the invalidates rows with factID at either
\* end, joined with the fact relation for the content of both facts.
GetInvalidationChain(e, factID, fail) ==
    LET content(id) == (CHOOSE n \in e.nodes : n.id = id /\ n.nodeType = "fact").data.content IN
    IF fail THEN [rows |-> {}, err |-> "get invalidation chain"]
    ELSE [rows |-> {[new_fact_id |-> r.new_fact_id, old_fact_id |-> r.old_fact_id,
                     reason |-> r.reason,
                     old_content |-> content(r.old_fact_id),
                     new_content |-> content(r.new_fact_id)]
                    : r \in {x \in e.invalidates :
                               /\ x.new_fact_id = factID \/ x.old_fact_id = factID
                               /\ IsFact(e, x.old_fact_id)
                               /\ IsFact(e, x.new_fact_id)}},
          err |-> ""]

\* :order distance over result rows; rows at the same distance are kept in
\* the order of their tokens.
RECURSIVE ByDistance(_)
ByDistance(rows) ==
    IF rows = {} THEN <<>>
    ELSE LET first == CHOOSE r \in rows : \A o \in rows :
                         \/ r.distance < o.distance
                         \/ r.distance = o.distance /\ r.id.tok <= o.id.tok
         IN <<first>> \o ByDistance(rows \ {first})

\* The rows of one variant's semantic-search script: the k = limit*5
\* nearest embedding rows of the variant, joined with the node relation
\* (facts with valid = true only), ordered by distance and cut at limit.
SemanticRows(e, nt, limit) ==
    LET index == {m \in e.embeddings : m.nodeType = nt}
        nearest == Range(Truncated(ByDistance(index), limit * 5))
        joined == {m \in nearest :
                     \E n \in e.nodes : /\ n.id = m.id
                                        /\ n.nodeType = nt
                                        /\ nt = "fact" => n.valid}
    IN Truncated(ByDistance(joined), limit)

\* Variant of SemanticRows whose fact script has no valid = true line.
SemanticRowsUnfiltered(e, nt, limit) ==
    LET index == {m \in e.embeddings : m.nodeType = nt}
        nearest == Range(Truncated(ByDistance(index), limit * 5))
        joined == {m \in nearest :
                     \E n \in e.nodes : n.id = m.id /\ n.nodeType = nt}
    IN Truncated(ByDistance(joined), limit)

\* Merge of sequences already ordered by distance, as sort.Slice leaves it.
RECURSIVE MergeByDistance(_, _)
MergeByDistance(a, b) ==
    IF a = <<>> THEN b
    ELSE IF b = <<>> THEN a
    ELSE IF Head(b).distance < Head(a).distance
    THEN <<Head(b)>> \o MergeByDistance(a, Tail(b))
    ELSE <<Head(a)>> \o MergeByDistance(Tail(a), b)

\* Variant of SemanticCollect without the final sort.Slice: the variants'
\* rows stay in the order the variants were queried.
RECURSIVE SemanticCollectAppend(_, _, _, _)
SemanticCollectAppend(e, nodeTypes, limit, failed) ==
    IF nodeTypes = <<>> THEN <<>>
    ELSE LET nt == Head(nodeTypes)
             rows == IF nt \in {"fact", "decision", "entity", "event"} /\ nt \notin failed
                     THEN SemanticRows(e, nt, limit) ELSE <<>>
         IN rows \o SemanticCollectAppend(e, Tail(nodeTypes), limit, failed)

RECURSIVE SemanticCollect(_, _, _, _)
SemanticCollect(e, nodeTypes, limit, failed) ==
    IF nodeTypes = <<>> THEN <<>>
    ELSE LET nt == Head(nodeTypes)
             rows == IF nt \in {"fact", "decision", "entity", "event"} /\ nt \notin failed
                     THEN SemanticRows(e, nt, limit) ELSE <<>>
         IN MergeByDistance(rows, SemanticCollect(e, Tail(nodeTypes), limit, failed))

\* Reader.SemanticSearch: embedder says whether an embedder is configured,
\* failed is the set of variants whose query fails (logged and skipped).
SemanticSearch(e, embedder, nodeTypes, limit0, failed) ==
    LET limit == IF limit0 <= 0 THEN 10 ELSE limit0
        types == IF nodeTypes = <<>> THEN <<"fact", "decision", "entity", "event">>
                 ELSE nodeTypes
    IN
    IF ~embedder
    THEN [results |-> <<>>, err |-> "semantic search requires embeddings to be enabled"]
    ELSE [results |-> Truncated(SemanticCollect(e, types, limit, failed), limit),
          err |-> ""]

\* GetStats: the node count queries, in the order they are issued.
StatsQueries ==
    <<"TotalFacts", "ValidFacts", "InvalidatedFacts", "TotalDecisions",
      "ActiveDecisions", "TotalEntities", "TotalEvents", "TotalTopics">>

\* The row count one of the GetStats queries returns on the relations ns.
StatsCount(ns, q) ==
    Cardinality(
      CASE q = "TotalFacts"       -> {n \in ns : n.nodeType = "fact"}
        [] q = "ValidFacts"       -> {n \in ns : n.nodeType = "fact" /\ n.valid}
        [] q = "InvalidatedFacts" -> {n \in ns : n.nodeType = "fact" /\ ~n.valid}
        [] q = "TotalDecisions"   -> {n \in ns : n.nodeType = "decision"}
        [] q = "ActiveDecisions"  -> {n \in ns : n.nodeType = "decision"
                                                 /\ n.status = "active"}
        [] q = "TotalEntities"    -> {n \in ns : n.nodeType = "entity"}
        [] q = "TotalEvents"      -> {n \in ns : n.nodeType = "event"}
        [] q = "TotalTopics"      -> {n \in ns : n.nodeType = "topic"})

\* Reader.GetStats on an engine nobody writes to meanwhile: a count query
\* that fails is logged and leaves its field at zero; the error is always
\* nil.  failed is the set of count queries that fail, edgesFail says
\* whether the edge-table counts fail.
GetStats(e, failed, edgesFail) ==
    [stats |-> [q \in Range(StatsQueries) |->
                  IF q \in failed THEN 0 ELSE StatsCount(e.nodes, q)],
     totalEdges |-> IF edgesFail THEN 0
                    ELSE Cardinality(e.edges) + Cardinality(e.invalidates),
     err |-> ""]

\* The key of a variant in ExportData.Stats.
StatsKey(nodeType) ==
    CASE nodeType = "fact" -> "facts"
      [] nodeType = "decision" -> "decisions"
      [] nodeType = "entity" -> "entities"
      [] nodeType = "event" -> "events"
      [] nodeType = "topic" -> "topics"

\* exportFacts .. exportTopics: all rows of one node relation.
exportRows(e, nodeType) == {n \in e.nodes : n.nodeType = nodeType}

\* Reader.ExportGraph: the rows of the selected node variants (all five
\* when none is named) and their counts; Edges is never assigned.  failed
\* is the set of variants whose query fails.
ExportGraph(e, opts, failed) ==
    LET nodeTypes == IF opts.NodeTypes = <<>>
                     THEN <<"fact", "decision", "entity", "event", "topic">>
                     ELSE opts.NodeTypes
        selected == Range(nodeTypes) \cap NodeTypes
        rows(nodeType) == IF nodeType \in selected THEN exportRows(e, nodeType) ELSE {}
    IN
    IF selected \cap failed # {} THEN [ok |-> FALSE, err |-> "substrate-error"]
    ELSE [ok |-> TRUE, err |-> "",
          Version |-> "1",
          Stats |-> [k \in {StatsKey(nt) : nt \in selected} |->
                        Cardinality(exportRows(e, CHOOSE nt \in selected : StatsKey(nt) = k))],
          Facts |-> rows("fact"),
          Decisions |-> rows("decision"),
          Entities |-> rows("entity"),
          Events |-> rows("event"),
          Topics |-> rows("topic"),
          Edges |-> {}]

\* One loop of importJSON: each exported row of a variant is stored anew
\* from its fields; a failure is a warning and the loop goes on.
RECURSIVE importRows(_, _, _)
importRows(e, rows, nodeType) ==
    IF rows = <<>> THEN e
    ELSE importRows(WriterStore(e, nodeType, Head(rows).data, FALSE).e, Tail(rows), nodeType)

\* importJSON: facts, decisions, entities, events, topics, in this order;
\* nothing else of the export is read.
importJSON(e, export) ==
    LET e1 == importRows(e, InKeyOrder(export.Facts), "fact")
        e2 == importRows(e1, InKeyOrder(export.Decisions), "decision")
        e3 == importRows(e2, InKeyOrder(export.Entities), "entity")
        e4 == importRows(e3, InKeyOrder(export.Events), "event")
    IN importRows(e4, InKeyOrder(export.Topics), "topic")

\* The configuration modelled here has no embedder (embedding.enabled =
\* false): semantic mode answers with its "requires embeddings" error.
EmbeddingsEnabled == FALSE

querySemanticMode(e, query, nodeTypes, limit, f) ==
    NewError(<<"Semantic search requires embeddings to be enabled">>)

queryExactMode(e, query, nodeTypes, limit, f) ==
    LET r == ExactSearch(e, query, nodeTypes, limit, f.read) IN
    IF r.err # "" THEN NewError(<<"Exact search failed">>)
    ELSE NewResult([results |-> r.results])

queryGraphMode(e, args, f) ==
    LET nodeID == GetStringArg(args, "node_id", NoId)
        traversal == GetStringArg(args, "traversal", "")
        r == CASE traversal = "related_entities" -> GetRelatedEntities(e, nodeID, f.read)
               [] traversal \in {"related_facts", "facts_about_entity"} ->
                      GetFactsAboutEntity(e, nodeID, f.read)
               [] OTHER -> [rows |-> {}, err |-> "invalid"]
    IN
    IF nodeID = NoId THEN NewError(<<"node_id is required for graph mode">>)
    ELSE IF traversal = "" THEN NewError(<<"traversal is required for graph mode">>)
    ELSE IF traversal \notin {"related_entities", "related_facts", "facts_about_entity"}
    THEN NewError(<<"Invalid traversal type">>)
    ELSE IF r.err # "" THEN NewError(<<"Traversal failed">>)
    ELSE NewResult([results |-> r.rows])

\* Query: the mie_query handler.
Query(e, args, f) ==
    LET query == GetStringArg(args, "query", EmptyStr)
        mode == GetStringArg(args, "mode", "semantic")
        nodeTypes == GetStringArg(args, "node_types",
                                  <<"fact", "decision", "entity", "event">>)
        limit0 == GetFloat64Arg(args, "limit", 10)
        limit == IF limit0 < 1 THEN 1 ELSE IF limit0 > 50 THEN 50 ELSE limit0
        result == CASE mode = "semantic" -> querySemanticMode(e, query, nodeTypes, limit, f)
                    [] mode = "exact"    -> queryExactMode(e, query, nodeTypes, limit, f)
                    [] mode = "graph"    -> queryGraphMode(e, args, f)
                    [] OTHER             -> NewError(<<"Invalid mode">>)
    IN
    IF query = EmptyStr
    THEN [e |-> e, result |-> NewError(<<"Missing required parameter: query">>)]
    ELSE IF mode \notin {"semantic", "exact", "graph"}
    THEN [e |-> e, result |-> result]
    ELSE IF ~result.isError
    THEN [e |-> IncrementCounter(e, "total_queries", f).e, result |-> result]
    ELSE [e |-> e, result |-> result]

-----------------------------------------------------------------------------
(* Inputs *)

Txt == <<1, 2>>

DateStr == <<2, 0, 2, 6>>

FactArgs == [type |-> "fact", content |-> Txt]

EntityArgs == [type |-> "entity", name |-> Txt, kind |-> "company"]

PlainItems ==
    {[type |-> "decision", title |-> Txt, rationale |-> Txt],
     [type |-> "event", title |-> Txt, event_date |-> DateStr],
     [type |-> "topic", name |-> <<11, 2>>]}

\* Items whose store fails before the engine is reached.
BadItems ==
    {[nonobject |-> TRUE],
     [content |-> Txt],
     [type |-> "gadget", content |-> Txt],
     [type |-> "fact"],
     [type |-> "entity", name |-> Txt, kind |-> "alien"]}

Num(j) == [num |-> TRUE, v |-> j]

Ref(edge, j) == [edge |-> edge, target_ref |-> Num(j)]

\* Single relationships: target_ref from -1 up to an index past any batch,
\* a target_ref that is not a number, every edge type, explicit target ids
\* (token 1 may or may not be an entity), an unknown edge type, a missing
\* target and a relationship that is not an object.
RelMaps ==
    {Ref("fact_entity", j) : j \in (0 - 1)..MaxNodes}
    \cup {[edge |-> "fact_entity", target_ref |-> [num |-> FALSE, v |-> 0]]}
    \cup {Ref(t, 0) : t \in validEdgeTypes \ {"decision_entity"}}
    \cup {[edge |-> "decision_entity", target_ref |-> Num(0), role |-> "owner"]}
    \cup {[edge |-> "fact_entity", target_id |-> Id("ent:", 1)],
          [edge |-> "gadget_of", target_id |-> Id("ent:", 1)],
          [edge |-> "fact_entity"],
          [nonobject |-> TRUE]}

RelLists ==
    {<<r>> : r \in RelMaps}
    \cup {<<Ref("fact_entity", MaxNodes), Ref("fact_entity", 0)>>}

InvalidatesArgs == {Id("fact:", 1), Id("ent:", 1)}

\* What a fact item may carry besides its own fields.
Extras ==
    {[relationships |-> l] : l \in RelLists}
    \cup {[invalidates |-> i] : i \in InvalidatesArgs}
    \cup {[invalidates |-> i, relationships |-> <<Ref("fact_entity", 0)>>]
          : i \in InvalidatesArgs}

\* What an entity item may carry: an edge whose source is meant to be a
\* fact, an edge whose source is an entity, an invalidation.
EntityExtras ==
    {[relationships |-> <<[edge |-> "fact_entity", target_id |-> Id("ent:", 1)]>>],
     [relationships |-> <<Ref("entity_topic", 1)>>],
     [invalidates |-> Id("fact:", 1)]}

Items ==
    {FactArgs, EntityArgs} \cup PlainItems \cup BadItems
    \cup {FactArgs @@ x : x \in Extras}
    \cup {EntityArgs @@ x : x \in EntityExtras}
    \cup {[type |-> "fact", invalidates |-> Id("fact:", 1),
           relationships |-> <<Ref("fact_entity", 0)>>]}

\* A fact that names both a fact to invalidate and an edge to an entity id.
InvalidatingItems ==
    {FactArgs @@ [invalidates |-> i,
                  relationships |-> <<[edge |-> "fact_entity",
                                       target_id |-> Id("ent:", 1)]>>]
     : i \in InvalidatesArgs}

StoreArgs == {a \in Items : IsObject(a)} \cup InvalidatingItems

RECURSIVE SeqsOfLen(_, _)
SeqsOfLen(S, n) ==
    IF n = 0 THEN {<<>>}
    ELSE {Append(q, x) : q \in SeqsOfLen(S, n - 1), x \in S}

Array(elems) == [kind |-> "array", elems |-> elems]

\* Rejected item lists: missing, null, not an array, empty, too long.
BadBulkArgs ==
    {[source_agent |-> "claude"],
     [items |-> [kind |-> "null", elems |-> <<>>]],
     [items |-> [kind |-> "string", elems |-> <<>>]],
     [items |-> Array(<<>>)],
     [items |-> Array([i \in 1..(maxBulkItems + 1) |-> FactArgs])]}

\* The items batches of two or more are made of: a node of three variants,
\* the three ways an item fails, references forward, backward and out of
\* range, both kinds of invalidation, and an edge from an entity.
CoreItems ==
    {FactArgs, EntityArgs,
     [type |-> "topic", name |-> <<11, 2>>],
     [nonobject |-> TRUE],
     [type |-> "gadget", content |-> Txt],
     [type |-> "fact"],
     FactArgs @@ [relationships |-> <<Ref("fact_entity", 1)>>],
     FactArgs @@ [relationships |-> <<Ref("fact_entity", MaxNodes), Ref("fact_entity", 0)>>],
     FactArgs @@ [invalidates |-> Id("fact:", 1)],
     FactArgs @@ [invalidates |-> Id("ent:", 1)],
     EntityArgs @@ [relationships |-> <<Ref("entity_topic", 1)>>]}

\* Batches of one item take every item; longer ones take the core items.
BulkArgs(room) ==
    BadBulkArgs
    \cup {[items |-> Array(<<x>>)] : x \in IF room >= 1 THEN Items ELSE {}}
    \cup {[items |-> Array(q)] : q \in UNION {SeqsOfLen(CoreItems, n) : n \in 2..room}}

QueryArgs ==
    {[mode |-> "exact"],
     [query |-> <<1>>],
     [query |-> <<1>>, mode |-> "exact"],
     [query |-> <<1>>, mode |-> "exact", node_types |-> <<"topic", "entity">>, limit |-> 1],
     [query |-> <<1>>, mode |-> "graph", node_id |-> Id("fact:", 1),
      traversal |-> "related_entities"],
     [query |-> <<1>>, mode |-> "graph", node_id |-> Id("ent:", 1), traversal |-> "walk"],
     [query |-> <<1>>, mode |-> "fuzzy"]}

NoFaults ==
    [store |-> {}, inval |-> FALSE, edge |-> FALSE, read |-> FALSE,
     incRead |-> FALSE, incWrite |-> FALSE]

Faults ==
    [store : SUBSET (1..MaxNodes), inval : BOOLEAN, edge : BOOLEAN, read : BOOLEAN,
     incRead : BOOLEAN, incWrite : BOOLEAN]

CallsOf(log, op) == {k \in 1..Len(log) : log[k].op = op}

\* Each fault named by f is one the handler met: faults on calls that were
\* never made change nothing and are not enumerated.  A failing read of
\* the counter is not told apart when its write fails too.
FaultsMet(f, log) ==
    /\ Cardinality({k \in CallsOf(log, "Store") : log[k].id = NoId}) = Cardinality(f.store)
    /\ f.inval => CallsOf(log, "InvalidateFact") # {}
    /\ f.edge => CallsOf(log, "AddRelationship") # {}
    /\ (f.incRead \/ f.incWrite) => CallsOf(log, "IncrementCounter") # {}
    /\ ~(f.incRead /\ f.incWrite)

\* The faults that can matter to a handler whose fault-free run made the
\* calls of log: a fault only ever removes later calls.
FaultsFor(log) ==
    {f \in Faults :
        /\ f.store # {} => CallsOf(log, "Store") # {}
        /\ f.inval => CallsOf(log, "InvalidateFact") # {}
        /\ f.edge => CallsOf(log, "AddRelationship") # {}
        /\ (f.incRead \/ f.incWrite) => CallsOf(log, "IncrementCounter") # {}
        /\ ~(f.incRead /\ f.incWrite)}

-----------------------------------------------------------------------------
(* State machine of the tool dispatcher *)

NoReq == [tool |-> "", args |-> [none |-> TRUE], f |-> NoFaults]

NoResp == [isError |-> FALSE, text |-> <<>>]

\* nil in a response or a request: no id, no result, no error.
NilID == 0

NoResult == [kind |-> "nil"]

NoError == [code |-> 0, message |-> ""]

NoLine == [kind |-> "none"]

\* Nothing read, nothing written.
WireInit ==
    [last |-> NoLine, f |-> [store |-> {}], h |-> "ok", written |-> <<>>, count |-> 0]

\* No embedding row, no invalidation in flight.
EngInit ==
    [embeddings |-> {},
     inv |-> [p \in 1..NumCallers |->
                [pc |-> "idle", old |-> NoId, new |-> NoId, reason |-> EmptyStr]]]

IncInit ==
    [pc |-> [p \in 1..NumCallers |-> "idle"],
     current |-> [p \in 1..NumCallers |-> 0],
     started |-> [p \in 1..NumCallers |-> 0],
     stale |-> [p \in 1..NumCallers |-> FALSE],
     succeeded |-> 0,
     readFailed |-> FALSE]

Init ==
    /\ nodes = {}
    /\ edges = {}
    /\ invalidates = {}
    /\ meta = [schema_version |-> <<1>>]
    /\ nextTok = 1
    /\ pc = "idle"
    /\ req = NoReq
    /\ resp = NoResp
    /\ calls = <<>>
    /\ inc = IncInit
    /\ eng = EngInit
    /\ wire = WireInit

Engine ==
    [nodes |-> nodes, edges |-> edges, invalidates |-> invalidates,
     meta |-> meta, nextTok |-> nextTok, calls |-> <<>>,
     embeddings |-> eng.embeddings]

\* The handler returned out: publish its writes, its result and its calls.
Answer(tool, args, f, out) ==
    /\ nodes' = out.e.nodes
    /\ edges' = out.e.edges
    /\ invalidates' = out.e.invalidates
    /\ meta' = out.e.meta
    /\ nextTok' = out.e.nextTok
    /\ calls' = out.e.calls
    /\ req' = [tool |-> tool, args |-> args, f |-> f]
    /\ resp' = out.result
    /\ pc' = "done"
    /\ UNCHANGED <<inc, eng, wire>>

StoreCall ==
    /\ pc = "idle"
    /\ Cardinality(nodes) < MaxNodes
    /\ \E args \in StoreArgs :
       \E f \in FaultsFor(Store(Engine, args, NoFaults).e.calls) :
          /\ f.store \subseteq {1} /\ ~f.read
          /\ LET out == Store(Engine, args, f) IN
                FaultsMet(f, out.e.calls) /\ Answer("mie_store", args, f, out)

BulkStoreCall ==
    /\ pc = "idle"
    /\ \E args \in BulkArgs(MaxNodes - Cardinality(nodes)) :
       \E f \in FaultsFor(BulkStore(Engine, args, NoFaults).e.calls) :
          /\ ~f.read
          /\ LET out == BulkStore(Engine, args, f) IN
                /\ FaultsMet(f, out.e.calls)
                /\ Answer("mie_bulk_store", args, f, out)

QueryCall ==
    /\ pc = "idle"
    /\ CounterCurrent(meta, "total_queries", FALSE) < MaxQueries
    /\ \E args \in QueryArgs :
       \E f \in FaultsFor(Query(Engine, args, NoFaults).e.calls) :
          /\ f.store = {} /\ ~f.inval /\ ~f.edge
          /\ f.read => GetStringArg(args, "mode", "") \in {"exact", "graph"}
          /\ LET out == Query(Engine, args, f) IN
                FaultsMet(f, out.e.calls) /\ Answer("mie_query", args, f, out)

\* The response is written; the dispatcher waits for the next request.
Return ==
    /\ pc = "done"
    /\ pc' = "idle"
    /\ req' = NoReq
    /\ resp' = NoResp
    /\ calls' = <<>>
    /\ UNCHANGED <<nodes, edges, invalidates, meta, nextTok, inc, eng, wire>>

Next == StoreCall \/ BulkStoreCall \/ QueryCall \/ Return

Spec == Init /\ [][Next]_vars

-----------------------------------------------------------------------------
(* Concurrent callers of Client.IncrementCounter("total_stores").  Each    *)
(* substrate statement of the function is one step; the engine takes no    *)
(* lock around them.                                                       *)

Callers == 1..NumCallers

TotalStores == CounterCurrent(meta, "total_stores", FALSE)

\* Line 254: the read query.  inc.stale[p] records whether another caller
\* has written since p read.
IncRead(p) ==
    /\ inc.pc[p] = "idle"
    /\ inc.started[p] < MaxIncs
    /\ \E readFails \in BOOLEAN :
          inc' = [inc EXCEPT
                    !.pc[p] = "write",
                    !.current[p] = CounterCurrent(meta, "total_stores", readFails),
                    !.started[p] = @ + 1,
                    !.stale[p] = FALSE,
                    !.readFailed = @ \/ readFails]
    /\ UNCHANGED <<nodes, edges, invalidates, meta, nextTok, pc, req, resp, calls, eng, wire>>

\* Line 269: the put; on failure the function returns its error.
IncWrite(p) ==
    /\ inc.pc[p] = "write"
    /\ \E writeFails \in BOOLEAN :
          IF writeFails
          THEN /\ inc' = [inc EXCEPT !.pc[p] = "idle"]
               /\ UNCHANGED meta
          ELSE /\ meta' = CounterPut(meta, "total_stores", inc.current[p])
               /\ inc' = [inc EXCEPT
                            !.pc[p] = "stamp",
                            !.succeeded = @ + 1,
                            !.stale = [q \in Callers |-> IF q = p THEN @[q] ELSE TRUE]]
    /\ UNCHANGED <<nodes, edges, invalidates, nextTok, pc, req, resp, calls, eng, wire>>

\* Line 288: the best-effort timestamp write, then return nil.
IncStamp(p) ==
    /\ inc.pc[p] = "stamp"
    /\ meta' = CounterStamp(meta, "total_stores")
    /\ inc' = [inc EXCEPT !.pc[p] = "idle"]
    /\ UNCHANGED <<nodes, edges, invalidates, nextTok, pc, req, resp, calls, eng, wire>>

NextCounter == \E p \in Callers : IncRead(p) \/ IncWrite(p) \/ IncStamp(p)

SpecCounter == Init /\ [][NextCounter]_vars

\* ---------------------------------------------------------------------
\* The engine under concurrent callers: node writes, the embedding row
\* that follows a node write as a separate substrate operation,
\* relationships, and invalidation as two substrate operations.
\* ---------------------------------------------------------------------

Reasons == {<<3>>, <<4>>}

Distances == 1..2

EngineNodeData(nodeType) ==
    IF nodeType = "fact"
    THEN [content |-> Txt, category |-> "general", confidence |-> 8]
    ELSE [name |-> Txt, kind |-> "company", description |-> EmptyStr]

EngineBecomes(e) ==
    /\ nodes' = e.nodes
    /\ edges' = e.edges
    /\ invalidates' = e.invalidates
    /\ nextTok' = e.nextTok
    /\ eng' = [eng EXCEPT !.embeddings = e.embeddings]

\* store_fact / store_entity: the node row is published.
EngStore ==
    /\ Cardinality(nodes) < MaxNodes
    /\ \E nodeType \in {"fact", "entity"} :
          EngineBecomes(WriterStore(Engine, nodeType, EngineNodeData(nodeType), FALSE).e)
    /\ UNCHANGED <<meta, pc, req, resp, calls, inc, wire>>

\* The embedding row of a stored node is published; the distance is that
\* of its vector to the query vector of the searches below.
EngEmbed ==
    /\ \E n \in nodes : \E d \in Distances :
          /\ n.nodeType \in {"fact", "decision", "entity", "event"}
          /\ \A m \in eng.embeddings : m.id # n.id
          /\ eng' = [eng EXCEPT !.embeddings =
                        @ \cup {[id |-> n.id, nodeType |-> n.nodeType, distance |-> d]}]
    /\ UNCHANGED <<nodes, edges, invalidates, meta, nextTok, pc, req, resp, calls, inc, wire>>

\* add_relationship between a stored fact and a stored entity.
EngAddRelationship ==
    /\ \E fa \in nodes : \E en \in nodes :
          /\ fa.nodeType = "fact" /\ en.nodeType = "entity"
          /\ LET out == WriterAddRelationship(Engine, <<"mie_", "fact_entity">>,
                                              [fact_id |-> fa.id, entity_id |-> en.id],
                                              FALSE)
             IN out.err = "" /\ out.e.edges # edges /\ EngineBecomes(out.e)
    /\ UNCHANGED <<meta, pc, req, resp, calls, inc, wire>>

\* invalidate_fact, first substrate operation, after the check that both
\* ids are existing facts.
EngInvalidateMark(p) ==
    /\ eng.inv[p].pc = "idle"
    /\ \E old \in nodes : \E new \in nodes : \E reason \in Reasons :
          /\ IsFact(Engine, old.id) /\ IsFact(Engine, new.id)
          /\ LET e == MarkInvalid(Engine, old.id, new.id, reason) IN
                /\ nodes' = e.nodes
                /\ invalidates' = e.invalidates
          /\ eng' = [eng EXCEPT !.inv[p] = [pc |-> "insert", old |-> old.id,
                                            new |-> new.id, reason |-> reason]]
    /\ UNCHANGED <<edges, meta, nextTok, pc, req, resp, calls, inc, wire>>

\* invalidate_fact, second substrate operation, and return.
EngInvalidateInsert(p) ==
    /\ eng.inv[p].pc = "insert"
    /\ LET i == eng.inv[p]
           e == InsertInvalidates(Engine, i.old, i.new, i.reason)
       IN /\ nodes' = e.nodes
          /\ invalidates' = e.invalidates
    /\ eng' = [eng EXCEPT !.inv[p] = EngInit.inv[p]]
    /\ UNCHANGED <<edges, meta, nextTok, pc, req, resp, calls, inc, wire>>

\* The caller is cancelled, or the process crashes, between the two
\* operations: what was written stays.
EngInvalidateCancel(p) ==
    /\ eng.inv[p].pc = "insert"
    /\ eng' = [eng EXCEPT !.inv[p] = EngInit.inv[p]]
    /\ UNCHANGED <<nodes, edges, invalidates, meta, nextTok, pc, req, resp, calls, inc, wire>>

NextEngine ==
    \/ EngStore
    \/ EngEmbed
    \/ EngAddRelationship
    \/ \E p \in Callers : EngInvalidateMark(p)
    \/ \E p \in Callers : EngInvalidateInsert(p)
    \/ \E p \in Callers : EngInvalidateCancel(p)

SpecEngine == Init /\ [][NextEngine]_vars

\* ---------------------------------------------------------------------
\* The JSON-RPC serve loop: one line is read, dispatched by method and,
\* unless the response is empty, answered with one line.
\* ---------------------------------------------------------------------

MaxLines == 2

jsonRPCResponse(id, result, error) ==
    [JSONRPC |-> "2.0", ID |-> id, Result |-> result, Error |-> error]

\* jsonRPCResponse{}
EmptyResponse == [JSONRPC |-> "", ID |-> NilID, Result |-> NoResult, Error |-> NoError]

rpcError(code, message) == [code |-> code, message |-> message]

\* The tools of toolHandlers: those whose handler is modelled here, and
\* mie_update as one of those whose handler is not.
toolHandlers == {"mie_store", "mie_bulk_store", "mie_query", "mie_update"}

HandlerOutcomes == {"ok", "toolError", "err"}

\* What a modelled handler returns: its result and a nil error ("").
HandlerReturn(out) == [e |-> out.e, result |-> out.result, err |-> ""]

\* handler(ctx, s, params.Arguments): the tool's result and its error.
\* h is the outcome of a handler that is not modelled.
RunHandler(e, name, arguments, f, h) ==
    CASE name = "mie_store" -> HandlerReturn(Store(e, arguments, f))
      [] name = "mie_bulk_store" -> HandlerReturn(BulkStore(e, arguments, f))
      [] name = "mie_query" -> HandlerReturn(Query(e, arguments, f))
      [] OTHER ->
            [e |-> e,
             result |-> IF h = "toolError" THEN NewError(<<"update failed">>)
                        ELSE NewResult(<<"updated">>),
             err |-> IF h = "err" THEN "handler error" ELSE ""]

mcpToolResult(text, isError) == [kind |-> "tool", text |-> text, isError |-> isError]

\* Lines 491-504 of handleToolCall: a handler's error becomes a result with
\* IsError, its result is passed on.
ToolResultOf(name, out) ==
    IF out.err # ""
    THEN [e |-> out.e, result |-> mcpToolResult(<<"Error in", name, out.err>>, TRUE),
          err |-> ""]
    ELSE [e |-> out.e, result |-> mcpToolResult(out.result.text, out.result.isError),
          err |-> ""]

\* Variant of handleToolCall that hands a handler's error on to the caller.
handleToolCallPropagates(e, params, f, h) ==
    IF params.name \notin toolHandlers
    THEN [e |-> e, result |-> mcpToolResult(<<"Unknown tool", params.name>>, TRUE),
          err |-> ""]
    ELSE [ToolResultOf(params.name, RunHandler(e, params.name, params.arguments, f, "ok"))
            EXCEPT !.err = IF h = "err" /\ params.name = "mie_update"
                           THEN "handler error" ELSE ""]

\* handleToolCall: its error is always nil.
handleToolCall(e, params, f, h) ==
    IF params.name \notin toolHandlers
    THEN [e |-> e, result |-> mcpToolResult(<<"Unknown tool", params.name>>, TRUE),
          err |-> ""]
    ELSE ToolResultOf(params.name, RunHandler(e, params.name, params.arguments, f, h))

\* buildRecentContext: the latest valid facts, decisions and entities.
buildRecentContext(e) ==
    LET recent(nodeType, validOnly, limit) ==
            ListNodes(e, [NodeType |-> nodeType, Category |-> "", Kind |-> "",
                          Status |-> "", ValidOnly |-> validOnly, Limit |-> limit,
                          Offset |-> 0, SortBy |-> "created_at",
                          SortOrder |-> "desc"], "").nodes
        ids(seq) == [k \in 1..Len(seq) |-> seq[k].id]
    IN [facts |-> ids(recent("fact", TRUE, 5)),
        decisions |-> ids(recent("decision", FALSE, 3)),
        entities |-> ids(recent("entity", FALSE, 5))]

\* Lines 391-408 of handleRequest: the response to a tools/call.
ToolCallResponse(id, t) ==
    IF t.err # ""
    THEN [e |-> t.e,
          resp |-> jsonRPCResponse(id, NoResult, rpcError(0 - 32603, "Internal error"))]
    ELSE [e |-> t.e, resp |-> jsonRPCResponse(id, t.result, NoError)]

\* handleRequest: params.ok says whether req.Params decodes.
handleRequest(e, r, f, h) ==
    LET same(answer) == [e |-> e, resp |-> answer] IN
    CASE r.method = "initialize" ->
            same(jsonRPCResponse(r.id, [kind |-> "initialize"], NoError))
      [] r.method = "notifications/initialized" -> same(EmptyResponse)
      [] r.method = "tools/list" ->
            same(jsonRPCResponse(r.id, [kind |-> "tools"], NoError))
      [] r.method = "tools/call" ->
            IF ~r.params.ok
            THEN same(jsonRPCResponse(r.id, NoResult, rpcError(0 - 32602, "Invalid params")))
            ELSE ToolCallResponse(r.id, handleToolCall(e, r.params, f, h))
      [] r.method = "resources/list" ->
            same(jsonRPCResponse(r.id, [kind |-> "resources"], NoError))
      [] r.method = "resources/read" ->
            IF ~r.params.ok
            THEN same(jsonRPCResponse(r.id, NoResult, rpcError(0 - 32602, "Invalid params")))
            ELSE IF r.params.uri # "mie://context/recent"
            THEN same(jsonRPCResponse(r.id, NoResult, rpcError(0 - 32602, "Unknown resource")))
            ELSE same(jsonRPCResponse(r.id, [kind |-> "resource",
                                             text |-> buildRecentContext(e)], NoError))
      [] OTHER ->
            same(jsonRPCResponse(r.id, NoResult, rpcError(0 - 32601, "Method not found")))

\* Lines 328-339 of serve: a response with no id, no result and no error
\* is not written.
WriteResponse(out) ==
    IF /\ out.resp.ID = NilID
       /\ out.resp.Result = NoResult
       /\ out.resp.Error = NoError
    THEN [e |-> out.e, written |-> <<>>]
    ELSE [e |-> out.e, written |-> <<out.resp>>]

\* One pass of the loop of serve over a line: empty lines and lines that
\* are not JSON are skipped.
serve(e, line, f, h) ==
    IF line.kind # "request" THEN [e |-> e, written |-> <<>>]
    ELSE WriteResponse(handleRequest(e, line.req, f, h))

NoParams == [ok |-> TRUE, name |-> "", arguments |-> [none |-> TRUE], uri |-> ""]

ToolCallParams ==
    {[NoParams EXCEPT !.name = "mie_store", !.arguments = a]
        : a \in {FactArgs, EntityArgs, [content |-> Txt], [type |-> "fact"]}}
    \cup {[NoParams EXCEPT !.name = n, !.arguments = FactArgs]
             : n \in {"mie_update", "mie_gadget"}}
    \cup {[NoParams EXCEPT !.name = "mie_bulk_store", !.arguments = a]
             : a \in {[items |-> Array(<<>>)], [items |-> Array(<<FactArgs>>)]}}
    \cup {[NoParams EXCEPT !.name = "mie_query", !.arguments = a]
             : a \in {[mode |-> "exact"], [query |-> <<1>>, mode |-> "exact"]}}
    \cup {[NoParams EXCEPT !.ok = FALSE]}

Requests ==
    {[id |-> i, method |-> m, params |-> NoParams]
        : i \in {NilID, 1},
          m \in {"initialize", "notifications/initialized", "notifications/cancelled",
                 "tools/list", "resources/list", "unknown/method", ""}}
    \cup {[id |-> i, method |-> "tools/call", params |-> p]
             : i \in {NilID, 1}, p \in ToolCallParams}
    \cup {[id |-> i, method |-> "resources/read", params |-> p]
             : i \in {NilID, 1},
               p \in {[NoParams EXCEPT !.uri = "mie://context/recent"],
                      [NoParams EXCEPT !.uri = "mie://other"],
                      [NoParams EXCEPT !.ok = FALSE]}}

Lines ==
    {[kind |-> "empty", req |-> [id |-> NilID, method |-> "", params |-> NoParams]],
     [kind |-> "invalid", req |-> [id |-> NilID, method |-> "", params |-> NoParams]]}
    \cup {[kind |-> "request", req |-> r] : r \in Requests}

\* The fault-free run of a line, for the faults that can matter to it.
LineCalls(line) == serve([Engine EXCEPT !.calls = <<>>], line, NoFaults, "ok").e.calls

ServeLine ==
    /\ wire.count < MaxLines
    /\ \E line \in Lines : \E h \in HandlerOutcomes :
       \E log \in {LineCalls(line)} :
       \E f \in FaultsFor(log) :
          /\ f.store \subseteq {1} /\ ~f.read
          /\ h # "ok" => (line.kind = "request" /\ line.req.method = "tools/call"
                          /\ line.req.params.ok /\ line.req.params.name = "mie_update")
          /\ \E out \in {serve(Engine, line, f, h)} :
                /\ FaultsMet(f, out.e.calls)
                /\ Cardinality(out.e.nodes) <= MaxNodes
                /\ nodes' = out.e.nodes
                /\ edges' = out.e.edges
                /\ invalidates' = out.e.invalidates
                /\ meta' = out.e.meta
                /\ nextTok' = out.e.nextTok
                /\ wire' = [last |-> line, f |-> [store |-> f.store], h |-> h,
                            written |-> out.written, count |-> wire.count + 1]
    /\ UNCHANGED <<pc, req, resp, calls, inc, eng>>

NextServe == ServeLine

SpecServe == Init /\ [][NextServe]_vars

\* ---------------------------------------------------------------------
\* mie_store and mie_bulk_store over arguments that exercise the field
\* checks and the coercions of storeNode.
\* ---------------------------------------------------------------------

\* Arguments with no type, an unknown type, or a required field missing
\* or empty; some carry an invalidation and a relationship as well.
MissingFieldArgs ==
    {[content |-> Txt],
     [type |-> "gadget", content |-> Txt],
     [type |-> "fact"],
     [type |-> "fact", content |-> EmptyStr],
     [type |-> "fact", invalidates |-> Id("fact:", 1),
      relationships |-> <<[edge |-> "fact_entity", target_id |-> Id("ent:", 1)]>>],
     [type |-> "decision", rationale |-> Txt],
     [type |-> "decision", title |-> Txt],
     [type |-> "entity", kind |-> "company"],
     [type |-> "entity", name |-> Txt],
     [type |-> "event", event_date |-> DateStr],
     [type |-> "event", title |-> Txt],
     [type |-> "topic", description |-> Txt]}

\* Facts with a category and a confidence inside and outside their
\* ranges; confidences are in tenths.
CoercedFactArgs ==
    {FactArgs @@ [category |-> c] : c \in {"technical", "bogus", ""}}
    \cup {FactArgs @@ [confidence |-> c] : c \in {0 - 1, 0, 5, 10, 11}}
    \cup {FactArgs @@ [category |-> "bogus", confidence |-> 11]}

EntityKindArgs ==
    {[type |-> "entity", name |-> Txt, kind |-> k] : k \in {"person", "alien", "Company"}}

FieldArgs ==
    {FactArgs, EntityArgs} \cup PlainItems
    \cup MissingFieldArgs \cup CoercedFactArgs \cup EntityKindArgs

StoreFieldsCall ==
    /\ pc = "idle"
    /\ Cardinality(nodes) < MaxNodes
    /\ \E args \in FieldArgs :
       \E f \in FaultsFor(Store(Engine, args, NoFaults).e.calls) :
          /\ f.store \subseteq {1} /\ ~f.read
          /\ LET out == Store(Engine, args, f) IN
                FaultsMet(f, out.e.calls) /\ Answer("mie_store", args, f, out)

BulkFieldsCall ==
    /\ pc = "idle"
    /\ Cardinality(nodes) < MaxNodes
    /\ \E x \in FieldArgs :
       LET args == [items |-> Array(<<x>>)] IN
       \E f \in FaultsFor(BulkStore(Engine, args, NoFaults).e.calls) :
          /\ f.store \subseteq {1} /\ ~f.read
          /\ LET out == BulkStore(Engine, args, f) IN
                /\ FaultsMet(f, out.e.calls)
                /\ Answer("mie_bulk_store", args, f, out)

NextStore == StoreFieldsCall \/ BulkFieldsCall \/ Return

SpecStore == Init /\ [][NextStore]_vars

-----------------------------------------------------------------------------
(* Properties of mie_bulk_store *)

Done(tool) == pc = "done" /\ req.tool = tool

\* A bulk request that got past the checks on the item list.
BulkDone == Done("mie_bulk_store") /\ ~resp.isError

Batch == req.args["items"].elems

Stored == resp.text.stored

IsStored(i) == Stored[i].nodeID # NoId

LogOf(op) == {calls[k] : k \in CallsOf(calls, op)}

\* The relationships item i carries (none when it has no list).
RelsOf(i) ==
    IF IsObject(Batch[i]) /\ "relationships" \in DOMAIN Batch[i]
    THEN Batch[i]["relationships"] ELSE <<>>

HasRef(r) == IsObject(r) /\ "target_ref" \in DOMAIN r

\* target_ref = j names an item of the batch that was stored.
Resolves(r) ==
    /\ r["target_ref"].num
    /\ r["target_ref"].v \in 0..(Len(Batch) - 1)
    /\ IsStored(r["target_ref"].v + 1)

\* The relationships of item i that lead to an engine call: objects with
\* an edge type of the schema and a target, the target being a given id or
\* a target_ref that resolves.
LiveRels(i) ==
    {k \in 1..Len(RelsOf(i)) :
        LET r == RelsOf(i)[k] IN
        /\ IsObject(r)
        /\ "edge" \in DOMAIN r /\ r["edge"] \in validEdgeTypes
        /\ IF HasRef(r) THEN Resolves(r) ELSE "target_id" \in DOMAIN r}

LiveCount(i) == IF IsStored(i) THEN Cardinality(LiveRels(i)) ELSE 0

\* The live relationships of items 1..n.
RECURSIVE LiveUpTo(_)
LiveUpTo(n) == IF n = 0 THEN 0 ELSE LiveCount(n) + LiveUpTo(n - 1)

\* The two id columns of each edge table, source first.
EdgeColumns(edgeType) ==
    CASE edgeType = "fact_entity"     -> <<"fact_id", "entity_id">>
      [] edgeType = "fact_topic"      -> <<"fact_id", "topic_id">>
      [] edgeType = "decision_topic"  -> <<"decision_id", "topic_id">>
      [] edgeType = "decision_entity" -> <<"decision_id", "entity_id">>
      [] edgeType = "event_decision"  -> <<"event_id", "decision_id">>
      [] edgeType = "entity_topic"    -> <<"entity_id", "topic_id">>

EdgeTypeOf(tableName) == tableName[2]

SourceOf(row) == row.fields[EdgeColumns(EdgeTypeOf(row.tableName))[1]]

TargetOf(row) == row.fields[EdgeColumns(EdgeTypeOf(row.tableName))[2]]

\* C1: in a bulk store, a relationship of a stored item that names its
\* target by target_ref = j is created, in Phase B, against the id stored
\* for item j, whether j comes before or after the item; when j is out of
\* range or item j was not stored the relationship is dropped: no engine
\* call is made for it, no error is reported for it, and every other
\* relationship is still processed.
C1_TargetRefResolved ==
    BulkDone =>
      /\ \A i \in 1..Len(Batch) : \A k \in 1..Len(RelsOf(i)) :
            LET r == RelsOf(i)[k] IN
            (IsStored(i) /\ k \in LiveRels(i) /\ HasRef(r)) =>
               \E c \in LogOf("AddRelationship") :
                  /\ c.tableName = <<"mie_", r["edge"]>>
                  /\ SourceOf(c) = Stored[i].nodeID
                  /\ TargetOf(c) = Stored[r["target_ref"].v + 1].nodeID
      /\ Cardinality(CallsOf(calls, "AddRelationship"))
            = LiveUpTo(Len(Batch))
      /\ \A k \in 1..Len(resp.text.errors) :
            LET err == resp.text.errors[k] IN
            ~IsStored(err.idx + 1) \/ err.kind = "invalidation"

\* A batch in which one item's target_ref points forward to a stored item
\* and got its edge, and another relationship's target_ref was dropped.
C1_Witness ==
    /\ BulkDone
    /\ \E i \in 1..Len(Batch) : \E k \in 1..Len(RelsOf(i)) :
          LET r == RelsOf(i)[k] IN
          /\ IsStored(i) /\ k \in LiveRels(i) /\ HasRef(r)
          /\ r["target_ref"].v + 1 > i
          /\ \E c \in LogOf("AddRelationship") :
                /\ SourceOf(c) = Stored[i].nodeID
                /\ TargetOf(c) = Stored[r["target_ref"].v + 1].nodeID
    /\ \E i \in 1..Len(Batch) : \E k \in 1..Len(RelsOf(i)) :
          LET r == RelsOf(i)[k] IN
          IsStored(i) /\ HasRef(r) /\ ~Resolves(r)

\* What each variant requires of an item.
ValidItem(item) ==
    /\ IsObject(item)
    /\ "type" \in DOMAIN item
    /\ LET has(key) == key \in DOMAIN item /\ item[key] # EmptyStr IN
       CASE item["type"] = "fact"     -> has("content")
         [] item["type"] = "decision" -> has("title") /\ has("rationale")
         [] item["type"] = "entity"   -> has("name") /\ "kind" \in DOMAIN item
                                          /\ item["kind"] \in validEntityKinds
         [] item["type"] = "event"    -> has("title") /\ has("event_date")
         [] item["type"] = "topic"    -> has("name")
         [] OTHER -> FALSE

PhaseAErrors == {k \in 1..Len(resp.text.errors) : resp.text.errors[k].kind # "invalidation"}

\* C2: a bulk store over a list of 1 to 50 items never stops at a failing
\* item: every valid item whose store meets no engine error is in the
\* graph, every failed item is reported once under its input index, the
\* stored items and the Phase-A errors add up to the number of items, and
\* the result is not an error result.
C2_BulkNeverAborts ==
    (Done("mie_bulk_store")
       /\ "items" \in DOMAIN req.args /\ req.args["items"].kind = "array"
       /\ Len(req.args["items"].elems) \in 1..50) =>
      /\ ~resp.isError
      /\ \A i \in 1..Len(Batch) :
            /\ (ValidItem(Batch[i]) /\ i \notin req.f.store) =>
                  /\ IsStored(i)
                  /\ \E n \in nodes : n.id = Stored[i].nodeID
                                      /\ n.nodeType = Batch[i]["type"]
            /\ ~IsStored(i) =>
                  Cardinality({k \in PhaseAErrors : resp.text.errors[k].idx = i - 1}) = 1
      /\ Cardinality({i \in 1..Len(Batch) : IsStored(i)}) + Cardinality(PhaseAErrors)
            = Len(Batch)
      /\ resp.text.totalStored = Cardinality({i \in 1..Len(Batch) : IsStored(i)})

\* A batch whose first item failed and whose second item is stored.
C2_Witness ==
    /\ BulkDone
    /\ Len(Batch) >= 2
    /\ ~IsStored(1)
    /\ IsStored(2)
    /\ \E k \in PhaseAErrors : resp.text.errors[k].idx = 0

\* The item list is missing, not a list, empty, or longer than 50.
BadItemList(args) ==
    \/ "items" \notin DOMAIN args
    \/ args["items"].kind # "array"
    \/ Len(args["items"].elems) = 0
    \/ Len(args["items"].elems) > 50

\* C3: a bulk store whose item list is missing, empty or longer than 50
\* returns an error result, makes no engine call and leaves the graph and
\* the metadata as they were.
C3_BadListRejected ==
    [][(pc = "idle" /\ pc' = "done" /\ req'.tool = "mie_bulk_store"
          /\ BadItemList(req'.args))
        => (/\ resp'.isError
            /\ calls' = <<>>
            /\ UNCHANGED <<nodes, edges, invalidates, meta, nextTok>>)]_vars

\* A list of 51 items was answered with an error.
C3_Witness ==
    /\ Done("mie_bulk_store")
    /\ "items" \in DOMAIN req.args
    /\ Len(req.args["items"].elems) = 51
    /\ resp.isError

\* C4: in a bulk store all node stores come first, in input order, and
\* only then the invalidations and relationships; no store follows an
\* invalidation or a relationship, and none of these is issued for an item
\* whose store failed.
C4_PhaseAThenPhaseB ==
    BulkDone =>
      LET stores == CallsOf(calls, "Store")
          later == CallsOf(calls, "InvalidateFact") \cup CallsOf(calls, "AddRelationship")
          ids == {Stored[i].nodeID : i \in {j \in 1..Len(Batch) : IsStored(j)}}
      IN
      /\ \A a \in stores : \A b \in later : a < b
      /\ \A a \in stores : \A b \in stores :
            (a < b /\ calls[a].id # NoId /\ calls[b].id # NoId) =>
               \E i \in 1..Len(Batch) : \E j \in 1..Len(Batch) :
                  i < j /\ Stored[i].nodeID = calls[a].id /\ Stored[j].nodeID = calls[b].id
      /\ \A c \in LogOf("InvalidateFact") : c.new \in ids
      /\ \A c \in LogOf("AddRelationship") : SourceOf(c) \in ids

\* A batch of two stored items where the first one has a relationship and
\* the second one an invalidation that reached the engine.
C4_Witness ==
    /\ BulkDone
    /\ Len(Batch) = 2 /\ IsStored(1) /\ IsStored(2)
    /\ \E c \in LogOf("AddRelationship") : SourceOf(c) = Stored[1].nodeID
    /\ \E c \in LogOf("InvalidateFact") : c.new = Stored[2].nodeID

\* C5: mie_store and mie_bulk_store call IncrementCounter("total_stores")
\* exactly once for every node they stored.
C5_OneIncrementPerStoredNode ==
    (Done("mie_store") \/ Done("mie_bulk_store")) =>
       Cardinality({k \in CallsOf(calls, "IncrementCounter") :
                       calls[k].key = "total_stores"})
         = Cardinality({k \in CallsOf(calls, "Store") : calls[k].id # NoId})

-----------------------------------------------------------------------------
(* Properties of the counters *)

\* C6: IncrementCounter is atomic: as long as every read of the counter
\* succeeded, the counter equals the number of increments that succeeded,
\* however the calls overlap.
C6_NoLostIncrement == ~inc.readFailed => TotalStores = inc.succeeded

\* Caller p's put statement is the step being taken.
IsWriteBy(p) == inc.pc[p] = "write" /\ inc'.pc[p] = "stamp"

\* C7: no IncrementCounter call lowers the counter, also when its read of
\* the current value failed; stated for the calls during which no other
\* caller wrote the counter.
C7_CounterNeverDecreases ==
    [][(\E p \in Callers : IsWriteBy(p) /\ ~inc.stale[p])
          => TotalStores' >= TotalStores]_vars

\* The handler of each tool.
RunTool(tool, e, args, f) ==
    CASE tool = "mie_store"      -> Store(e, args, f)
      [] tool = "mie_bulk_store" -> BulkStore(e, args, f)
      [] tool = "mie_query"      -> Query(e, args, f)

CounterFaultsOff(f) == [f EXCEPT !.incRead = FALSE, !.incWrite = FALSE]

\* C8: a failing IncrementCounter changes nothing about the outcome of
\* mie_store, mie_bulk_store or mie_query: the result returned and the
\* nodes, edges and invalidations written are those of the same request
\* served with a counter that works.
C8_CounterFailureIgnored ==
    [][(pc = "idle" /\ pc' = "done" /\ (req'.f.incRead \/ req'.f.incWrite)) =>
         LET sound == RunTool(req'.tool, Engine, req'.args, CounterFaultsOff(req'.f)) IN
         /\ resp' = sound.result
         /\ nodes' = sound.e.nodes
         /\ edges' = sound.e.edges
         /\ invalidates' = sound.e.invalidates]_vars

\* A store that succeeded although the write of its counter failed.
C8_Witness ==
    /\ Done("mie_store")
    /\ req.f.incWrite
    /\ ~resp.isError
    /\ resp.text.stored[1].nodeID \in {n.id : n \in nodes}
    /\ "total_stores" \notin DOMAIN meta

-----------------------------------------------------------------------------
(* Properties of the edges *)

NodeIds == {n.id : n \in nodes}

\* C9: the two ids of every edge row are ids of nodes that exist.
C9_EdgeEndpointsExist ==
    \A r \in edges : SourceOf(r) \in NodeIds /\ TargetOf(r) \in NodeIds

\* The node variant each id column of an edge table refers to.
ColumnKind(col) ==
    CASE col = "fact_id"     -> "fact"
      [] col = "decision_id" -> "decision"
      [] col = "entity_id"   -> "entity"
      [] col = "event_id"    -> "event"
      [] col = "topic_id"    -> "topic"

\* C10: every edge row connects nodes of the kinds its edge type names:
\* a node found under an id column is of that column's variant.
C10_EdgeKindsMatch ==
    \A r \in edges : \A c \in 1..2 :
       LET col == EdgeColumns(EdgeTypeOf(r.tableName))[c] IN
       \A n \in nodes : n.id = r.fields[col] => n.nodeType = ColumnKind(col)

-----------------------------------------------------------------------------
(* Properties of the traversals *)

IdsOf(nodeType) == {n.id : n \in {m \in nodes : m.nodeType = nodeType}}

\* Every identifier a variant can have: its prefix and any token.
AllIds(nodeType) == {Id(Prefix(nodeType), t) : t \in 1..(MaxNodes + 1)}

RelatedEntities(f) == GetRelatedEntities(Engine, f, FALSE).rows

FactsAboutEntity(en) == GetFactsAboutEntity(Engine, en, FALSE).rows

-----------------------------------------------------------------------------
(* Properties of the valid flag and of invalidation *)

ListOpts(nodeType, validOnly) ==
    {[NodeType |-> nodeType, Category |-> "", Kind |-> "", Status |-> "",
      ValidOnly |-> validOnly, Limit |-> l, Offset |-> o, SortBy |-> sb,
      SortOrder |-> so]
     : l \in 0..1, o \in 0..1, sb \in {"", "created_at"}, so \in {"", "asc"}}

NodeOf(id) == CHOOSE n \in nodes : n.id = id

ValidFacts == {n \in nodes : n.nodeType = "fact" /\ n.valid}

\* C12: no fact with valid = false is returned by the valid-only list of
\* facts, by exact search or by semantic search, and the valid-only list
\* without paging returns exactly the facts that are still valid.
C12_OnlyValidFactsReturned ==
    /\ \A opts \in ListOpts("fact", TRUE) :
          LET out == ListNodes(Engine, opts, "") IN
          /\ out.err = ""
          /\ \A i \in 1..Len(out.nodes) : out.nodes[i].valid
          /\ out.total = Cardinality(ValidFacts)
          /\ opts.Limit = 0 /\ opts.Offset = 0 => Range(out.nodes) = ValidFacts
    /\ \A q \in {<<1>>, Txt} : \A types \in {<<>>, <<"fact">>} : \A limit \in 0..2 :
          \A r \in Range(ExactSearch(Engine, q, types, limit, FALSE).results) :
             r.nodeType = "fact" => NodeOf(r.id).valid
    /\ \A types \in {<<>>, <<"fact">>, <<"entity", "fact">>} : \A limit \in 0..2 :
          \A r \in Range(SemanticSearch(Engine, TRUE, types, limit, {}).results) :
             r.nodeType = "fact" => NodeOf(r.id).valid

\* Two embedded facts, the first invalidated in favour of the second: the
\* valid-only list returns the second alone, and so do both searches.
C12_Witness ==
    \E a \in nodes : \E b \in nodes :
       /\ a.nodeType = "fact" /\ b.nodeType = "fact" /\ ~a.valid /\ b.valid
       /\ [new_fact_id |-> b.id, old_fact_id |-> a.id, reason |-> <<3>>] \in invalidates
       /\ {m.id : m \in eng.embeddings} = {a.id, b.id}
       /\ \A opts \in ListOpts("fact", TRUE) :
             opts.Limit = 0 /\ opts.Offset = 0
                => Range(ListNodes(Engine, opts, "").nodes) = {b}
       /\ {r.id : r \in Range(ExactSearch(Engine, Txt, <<"fact">>, 0, FALSE).results)}
             = {b.id}
       /\ {r.id : r \in Range(SemanticSearch(Engine, TRUE, <<"fact">>, 0, {}).results)}
             = {b.id}

ChainRow(e, old, new, reason) ==
    [new_fact_id |-> new, old_fact_id |-> old, reason |-> reason,
     old_content |-> GetNodeByID(e, old, FALSE).node.data.content,
     new_content |-> GetNodeByID(e, new, FALSE).node.data.content]

\* What a reader sees of a completed invalidate_fact(old, new, reason).
InvalidationVisible(e, old, new, reason) ==
    /\ GetNodeByID(e, old, FALSE).found
    /\ ~GetNodeByID(e, old, FALSE).node.valid
    /\ ChainRow(e, old, new, reason) \in GetInvalidationChain(e, old, FALSE).rows
    /\ ChainRow(e, old, new, reason) \in GetInvalidationChain(e, new, FALSE).rows

\* C13: when invalidate_fact(old, new, r) completes for two existing
\* facts, get_node(old).valid is false and both invalidation_chain(old)
\* and invalidation_chain(new) contain the row (new, old, r) with the
\* contents of both facts.
C13_InvalidationRecorded ==
    [][\A p \in Callers :
          EngInvalidateInsert(p)
             => InvalidationVisible(Engine', eng.inv[p].old, eng.inv[p].new,
                                    eng.inv[p].reason)]_vars

\* An invalidation of one fact by another has completed and is visible
\* from both ends of the chain.
C13_Witness ==
    \E x \in invalidates :
       /\ x.old_fact_id # x.new_fact_id
       /\ \A p \in Callers : eng.inv[p].pc = "idle"
       /\ InvalidationVisible(Engine, x.old_fact_id, x.new_fact_id, x.reason)
       /\ Cardinality(GetInvalidationChain(Engine, x.new_fact_id, FALSE).rows) = 1

-----------------------------------------------------------------------------
(* Properties of the argument checks of mie_store *)

\* Kinds are enumeration values, the other fields are text.
Has(args, key) ==
    key \in DOMAIN args /\ args[key] # (IF key = "kind" THEN "" ELSE EmptyStr)

\* The first required field an argument map lacks, "" when it lacks none.
MissingField(args) ==
    LET t == IF "type" \in DOMAIN args THEN args["type"] ELSE "" IN
    CASE t \notin NodeTypes -> "type"
      [] t = "fact" -> IF ~Has(args, "content") THEN "content" ELSE ""
      [] t = "decision" -> IF ~Has(args, "title") THEN "title"
                           ELSE IF ~Has(args, "rationale") THEN "rationale" ELSE ""
      [] t = "entity" -> IF ~Has(args, "name") THEN "name"
                         ELSE IF ~Has(args, "kind") THEN "kind" ELSE ""
      [] t = "event" -> IF ~Has(args, "title") THEN "title"
                        ELSE IF ~Has(args, "event_date") THEN "event_date" ELSE ""
      [] t = "topic" -> IF ~Has(args, "name") THEN "name" ELSE ""

\* The field names that occur in a message of Store and storeNode.
FieldsIn(msg) ==
    CASE msg = "Missing required parameter: type" -> {"type"}
      [] msg = "Invalid type" -> {"type"}
      [] msg = "content is required for fact type" -> {"content", "type"}
      [] msg = "title is required for decision type" -> {"title", "type"}
      [] msg = "rationale is required for decision type" -> {"rationale", "type"}
      [] msg = "name is required for entity type" -> {"name", "type"}
      [] msg = "kind is required for entity type" -> {"kind", "type"}
      [] msg = "invalid entity kind" -> {"kind"}
      [] msg = "title is required for event type" -> {"title", "type"}
      [] msg = "event_date is required for event type" -> {"event_date", "type"}
      [] msg = "name is required for topic type" -> {"name", "type"}
      [] OTHER -> {}

Names(text, field) == \E k \in 1..Len(text) : field \in FieldsIn(text[k])

GraphUnchanged == UNCHANGED <<nodes, edges, invalidates, meta, nextTok>>

\* The step in which the handler of a tool runs and its answer is ready.
Answered(tool) == pc = "idle" /\ pc' = "done" /\ req'.tool = tool

\* C15: mie_store with a missing or unknown type, or with a required
\* field of its type missing, answers with an error result that names the
\* field and makes no engine call: nodes, edges, invalidations and
\* counters stay as they were.
C15_MissingFieldRejected ==
    [][Answered("mie_store") /\ MissingField(req'.args) # ""
          => /\ resp'.isError
             /\ Names(resp'.text, MissingField(req'.args))
             /\ calls' = <<>>
             /\ GraphUnchanged]_vars

\* A decision without rationale, carrying nothing else, was rejected on a
\* graph that already holds a node.
C15_Witness ==
    /\ Done("mie_store")
    /\ req.args = [type |-> "decision", title |-> Txt]
    /\ resp.isError /\ Names(resp.text, "rationale")
    /\ nodes # {} /\ calls = <<>>

\* The fact item of a call: the arguments of mie_store, the one item of
\* the batch of mie_bulk_store.
ItemOf(r) == IF r.tool = "mie_store" THEN r.args ELSE r.args["items"].elems[1]

ExpectedCategory(args) ==
    IF "category" \in DOMAIN args /\ args["category"] \in validFactCategories
    THEN args["category"] ELSE "general"

ExpectedConfidence(args) ==
    IF "confidence" \in DOMAIN args /\ args["confidence"] \in 1..10
    THEN args["confidence"] ELSE 8

\* C16: a fact stored through mie_store or mie_bulk_store reaches the
\* engine with one of the six categories (general for any other value)
\* and a confidence in (0,1] (0.8 for any other value), and the store
\* succeeds; an entity whose kind is not one of the seven kinds is
\* answered with an error and no entity is stored.
C16_FactCoercedEntityKindStrict ==
    [][(Answered("mie_store") \/ Answered("mie_bulk_store"))
          => LET x == ItemOf(req') IN
             /\ (MissingField(x) = "" /\ x["type"] = "fact" /\ req'.f.store = {})
                   => /\ ~resp'.isError
                      /\ \E n \in nodes' \ nodes :
                            /\ n.nodeType = "fact"
                            /\ n.data.category \in validFactCategories
                            /\ n.data.category = ExpectedCategory(x)
                            /\ n.data.confidence \in 1..10
                            /\ n.data.confidence = ExpectedConfidence(x)
                      /\ Cardinality(nodes') = Cardinality(nodes) + 1
             /\ (MissingField(x) = "" /\ x["type"] = "entity"
                 /\ x["kind"] \notin validEntityKinds)
                   => /\ nodes' = nodes
                      /\ IF req'.tool = "mie_store"
                         THEN resp'.isError /\ Names(resp'.text, "kind")
                         ELSE /\ resp'.text.totalStored = 0
                              /\ Len(resp'.text.errors) = 1
                              /\ resp'.text.errors[1].kind = "invalid entity kind"]_vars

\* A fact sent with an unknown category and a confidence above 1 is in
\* the graph as general with confidence 0.8.
C16_Witness ==
    /\ pc = "done" /\ ~resp.isError
    /\ ItemOf(req) = FactArgs @@ [category |-> "bogus", confidence |-> 11]
    /\ \E n \in nodes : /\ n.id = resp.text.stored[1].nodeID
                        /\ n.data.category = "general"
                        /\ n.data.confidence = 8


-----------------------------------------------------------------------------
(* Properties of the JSON-RPC layer *)

KnownMethods ==
    {"initialize", "notifications/initialized", "tools/list", "tools/call",
     "resources/list", "resources/read"}

LastRequest == wire.last.req

\* The last line was a tools/call whose params decode.
ToolCalled == /\ wire.last.kind = "request"
              /\ LastRequest.method = "tools/call"
              /\ LastRequest.params.ok

\* The tool of the last call failed: unknown tool, argument error, engine
\* error, or an error returned by the handler.
ToolFailed ==
    LET name == LastRequest.params.name
        args == LastRequest.params.arguments
    IN
    \/ name \notin toolHandlers
    \/ name = "mie_store" /\ (MissingField(args) # "" \/ wire.f.store # {})
    \/ name = "mie_bulk_store" /\ args["items"].elems = <<>>
    \/ name = "mie_query" /\ "query" \notin DOMAIN args
    \/ name = "mie_update" /\ wire.h # "ok"

\* C17: a request with an unknown method is answered with JSON-RPC error
\* -32601 and no result; a tools/call is never answered with an error
\* object, and when its tool fails the result carries isError = true.
C17_ErrorsByLayer ==
    /\ (wire.last.kind = "request" /\ LastRequest.method \notin KnownMethods)
          => /\ Len(wire.written) = 1
             /\ wire.written[1].ID = LastRequest.id
             /\ wire.written[1].Error.code = 0 - 32601
             /\ wire.written[1].Result = NoResult
    /\ ToolCalled
          => /\ Len(wire.written) = 1
             /\ wire.written[1].ID = LastRequest.id
             /\ wire.written[1].Error = NoError
             /\ wire.written[1].Result.kind = "tool"
             /\ wire.written[1].Result.isError = ToolFailed

\* A handler returned an error and the call was answered with a result
\* carrying isError = true.
C17_Witness ==
    /\ ToolCalled
    /\ LastRequest.params.name = "mie_update" /\ wire.h = "err"
    /\ Len(wire.written) = 1
    /\ wire.written[1].Error = NoError
    /\ wire.written[1].Result.isError

\* C18: no response line is written for a notification, a request
\* without an id, whatever its method.
C18_NotificationUnanswered ==
    (wire.last.kind = "request" /\ LastRequest.id = NilID) => wire.written = <<>>



-----------------------------------------------------------------------------
(* Properties of export and import *)

ExportSelections == {<<>>, <<"fact">>, <<"entity">>, <<"entity", "fact">>}

Selected(sel) == IF sel = <<>> THEN NodeTypes ELSE Range(sel)

ExportedNodes(x) == x.Facts \cup x.Decisions \cup x.Entities \cup x.Events \cup x.Topics

\* Every stored node of a selected variant is exported, nothing else is,
\* and stats[variant] is the number of exported rows of the variant.
ExportHasNodes(x, sel) ==
    /\ x.ok
    /\ ExportedNodes(x) = {n \in nodes : n.nodeType \in Selected(sel)}
    /\ DOMAIN x.Stats = {StatsKey(nt) : nt \in Selected(sel)}
    /\ \A nt \in Selected(sel) :
          x.Stats[StatsKey(nt)] = Cardinality({n \in ExportedNodes(x) : n.nodeType = nt})

\* Every stored edge and every invalidates row is exported.
ExportHasEdges(x) ==
    /\ \A r \in edges : r \in x.Edges
    /\ \A r \in invalidates : r \in x.Edges

\* C19: an export holds every stored node of the selected variants, every
\* stored edge and every invalidates row, and stats[variant] is the
\* number of exported rows of that variant.
C19_ExportComplete ==
    \A sel \in ExportSelections :
       LET x == ExportGraph(Engine, [NodeTypes |-> sel], {}) IN
       ExportHasNodes(x, sel) /\ ExportHasEdges(x)

\* The node half of an export, which holds on its own.
ExportNodesComplete ==
    \A sel \in ExportSelections :
       ExportHasNodes(ExportGraph(Engine, [NodeTypes |-> sel], {}), sel)

EmptyEngine ==
    [nodes |-> {}, edges |-> {}, invalidates |-> {},
     meta |-> [schema_version |-> <<1>>], nextTok |-> 1, calls |-> <<>>,
     embeddings |-> {}]

Imported == importJSON(EmptyEngine, ExportGraph(Engine, [NodeTypes |-> <<>>], {}))

\* A node without its identifier.
Content(n) == [nodeType |-> n.nodeType, data |-> n.data, valid |-> n.valid,
               status |-> n.status]

\* C20: importing a JSON export into an empty store reproduces the
\* exported graph: the same facts with the same valid flags, the same
\* decisions with the same status, and as many relationships and
\* invalidation rows.
C20_ImportInvertsExport ==
    /\ {Content(n) : n \in Imported.nodes} = {Content(n) : n \in nodes}
    /\ Cardinality(Imported.nodes) = Cardinality(nodes)
    /\ Cardinality(Imported.edges) = Cardinality(edges)
    /\ Cardinality(Imported.invalidates) = Cardinality(invalidates)

\* What an import does reproduce: the nodes, every fact valid again.
ImportRestoresNodeFields ==
    /\ {[nodeType |-> n.nodeType, data |-> n.data] : n \in Imported.nodes}
          = {[nodeType |-> n.nodeType, data |-> n.data] : n \in nodes}
    /\ Cardinality(Imported.nodes) = Cardinality(nodes)
    /\ \A n \in Imported.nodes : n.valid
    /\ Imported.edges = {} /\ Imported.invalidates = {}

(***************************************************************************)
(* C21: exact search without node_types                                    *)
(***************************************************************************)

\* The stored topics whose name or description contains the query string.
MatchingTopics(query) ==
    {n \in nodes : n.nodeType = "topic"
                   /\ \E t \in SearchFields(n) : StrIncludes(t, query)}

ExactQueryNoTypes ==
    /\ pc = "done" /\ req.tool = "mie_query"
    /\ GetStringArg(req.args, "mode", "semantic") = "exact"
    /\ "node_types" \notin DOMAIN req.args
    /\ ~resp.isError

\* C21: when mie_query in exact mode with no node_types argument has
\* answered, every stored topic whose name or description contains the
\* query string is among the results.
C21_ExactDefaultFindsTopics ==
    ExactQueryNoTypes =>
        \A n \in MatchingTopics(req.args.query) :
            \E i \in 1..Len(resp.text.results) : resp.text.results[i].id = n.id

(***************************************************************************)
(* C22: semantic search merges the variants' results by distance           *)
(***************************************************************************)

SemanticTypeLists == {<<>>, <<"fact">>, <<"entity">>, <<"fact", "entity">>}

\* The union of the per-variant results of the requested variants; a
\* variant whose query fails contributes nothing.
SemanticUnion(types, limit, failed) ==
    UNION {Range(SemanticRows(Engine, nt, limit)) :
             nt \in (IF types = <<>> THEN {"fact", "decision", "entity", "event"}
                     ELSE Range(types)) \ failed}

SemanticMin(a, b) == IF a < b THEN a ELSE b

\* C22: SemanticSearch returns at most limit results in non-decreasing
\* distance order, and they are the limit smallest-distance entries of the
\* union of the per-variant results of the requested variants; a variant
\* whose query fails contributes nothing and is not fatal.
C22_SemanticMergedByDistance ==
    \A types \in SemanticTypeLists : \A limit \in 1..2 :
    \A failed \in SUBSET {"fact", "entity"} :
       LET out == SemanticSearch(Engine, TRUE, types, limit, failed)
           res == out.results
           all == SemanticUnion(types, limit, failed)
       IN
       /\ out.err = ""
       /\ Len(res) = SemanticMin(limit, Cardinality(all))
       /\ \A i \in 1..Len(res) : \A j \in 1..Len(res) :
             i < j => res[i].distance <= res[j].distance /\ res[i] # res[j]
       /\ Range(res) \subseteq all
       /\ \A m \in all \ Range(res) : \A r \in Range(res) : r.distance <= m.distance

\* An embedded valid fact and a strictly nearer embedded entity: a search
\* over <<fact, entity>> with limit 1 returns the entity alone, with limit 2
\* the entity before the fact, and with the entity query failing the fact.
C22_Witness ==
    \E a \in eng.embeddings : \E b \in eng.embeddings :
       /\ a.nodeType = "fact" /\ b.nodeType = "entity" /\ b.distance < a.distance
       /\ SemanticSearch(Engine, TRUE, <<"fact", "entity">>, 1, {}).results = <<b>>
       /\ SemanticSearch(Engine, TRUE, <<"fact", "entity">>, 2, {}).results = <<b, a>>
       /\ SemanticSearch(Engine, TRUE, <<"fact", "entity">>, 1, {"entity"}).results = <<a>>

(***************************************************************************)
(* C23: ListNodes with an unknown sort_by                                  *)
(***************************************************************************)

\* List options whose sort_by names no column of the variant.
UnknownSortOpts ==
    {[NodeType |-> nt, Category |-> "", Kind |-> "", Status |-> "",
      ValidOnly |-> FALSE, Limit |-> 0, Offset |-> 0, SortBy |-> sb, SortOrder |-> so]
     : nt \in {"fact", "entity"}, sb \in {"bogus", "name"}, so \in {"", "asc"}}

\* C23: ListNodes with a sort_by value that is not a known sort field, on a
\* variant that has rows, returns without error the rows it returns for
\* sort_by = created_at.
C23_UnknownSortFallsBack ==
    \A opts \in UnknownSortOpts :
       (~OrderBound(opts) /\ \E n \in nodes : n.nodeType = opts.NodeType) =>
          /\ ListNodes(Engine, opts, "").err = ""
          /\ ListNodes(Engine, opts, "").nodes
                = ListNodes(Engine, [opts EXCEPT !.SortBy = "created_at"], "").nodes

(***************************************************************************)
(* C24: storage failures during reads                                      *)
(***************************************************************************)

\* C24: on a graph that holds nodes, when the substrate fails during exact
\* search, semantic search or get_stats, the operation returns an error
\* rather than an empty or partial successful result.
C24_ReadFailureSurfaced ==
    nodes # {} =>
       /\ \A q \in {<<1>>, Txt} : \A types \in {<<>>, <<"fact">>} :
             ExactSearch(Engine, q, types, 0, TRUE).err # ""
       /\ \A types \in SemanticTypeLists : \A failed \in SUBSET {"fact", "entity"} :
             failed # {} /\ (types = <<>> \/ failed \subseteq Range(types))
                => SemanticSearch(Engine, TRUE, types, 0, failed).err # ""
       /\ \A failed \in {{"TotalFacts"}, {"ValidFacts", "TotalEntities"},
                         Range(StatsQueries)} :
             GetStats(Engine, failed, FALSE).err # ""

(***************************************************************************)
(* C25: the replacement side of an invalidation                            *)
(***************************************************************************)

\* C25: whenever mie_store or mie_bulk_store has invoked invalidate_fact,
\* the old id begins with fact:, the new id is the id of a node stored by
\* the same call, that node is a fact, and the reason is "Replaced by
\* <new id>".
C25_ReplacementIsStoredFact ==
    (Done("mie_store") \/ Done("mie_bulk_store")) =>
       \A c \in LogOf("InvalidateFact") :
          /\ HasPrefix(c.old, "fact:")
          /\ \E s \in LogOf("Store") : s.id = c.new
          /\ c.reason = ReplacedBy(c.new)
          /\ HasPrefix(c.new, "fact:")

(***************************************************************************)
(* C26: a failed invalidation in mie_store                                 *)
(***************************************************************************)

InvalidationFailed ==
    /\ Done("mie_store") /\ resp.isError
    /\ resp.text \in {<<"invalidates must reference a fact ID">>,
                      <<"Failed to invalidate fact">>}

\* C26: when the invalidation of a mie_store call fails (value not
\* beginning with fact:, or invalidate_fact returns an error), the call
\* returns an error result, its node was stored before invalidate_fact was
\* invoked and remains in the graph, and none of its relationships is
\* attempted; conversely mie_store never answers successfully when its
\* invalidates value does not begin with fact: or invalidate_fact failed.
C26_FailedInvalidationKeepsNode ==
    /\ InvalidationFailed =>
          /\ \E k \in CallsOf(calls, "Store") :
                /\ calls[k].id # NoId
                /\ calls[k].id \in NodeIds
                /\ \A j \in CallsOf(calls, "InvalidateFact") :
                      k < j /\ calls[j].new = calls[k].id
          /\ LogOf("AddRelationship") = {}
          /\ LogOf("IncrementCounter") = {}
    /\ (Done("mie_store") /\ ~resp.isError /\ "invalidates" \in DOMAIN req.args) =>
          /\ HasPrefix(req.args.invalidates, "fact:")
          /\ ~req.f.inval
          /\ resp.text.invalidated

\* A fact carrying a relationship and an invalidates value that names an
\* entity: the call fails, the fact is in the graph, no edge was attempted.
C26_Witness ==
    /\ InvalidationFailed
    /\ req.args \in InvalidatingItems
    /\ req.args.invalidates = Id("ent:", 1)
    /\ \E n \in nodes : n.nodeType = "fact" /\ n.id = calls[1].id
    /\ edges = {}

\* The same with a well-formed invalidates value and a failing
\* invalidate_fact.
C26_WitnessWriterFails ==
    /\ InvalidationFailed
    /\ req.args \in InvalidatingItems
    /\ resp.text = <<"Failed to invalidate fact">>
    /\ LogOf("InvalidateFact") # {}

(***************************************************************************)
(* Semantic search over a graph of facts that replace one another.  Each   *)
(* store is mie_store of a fact, optionally with invalidates naming a fact *)
(* that is still valid; the fact's embedding row is published with it.     *)
(***************************************************************************)

MaxFacts == 6

ValidFactIds == {n.id : n \in {m \in nodes : m.nodeType = "fact" /\ m.valid}}

\* The engine after the stored fact's embedding row is written and the
\* invalidation, if one was asked for, is applied.
FactPublished(s, d, old) ==
    LET e1 == [s.e EXCEPT !.embeddings =
                  @ \cup {[id |-> s.id, nodeType |-> "fact", distance |-> d]}]
    IN IF old = NoId THEN e1
       ELSE WriterInvalidateFact(e1, old, s.id, ReplacedBy(s.id), FALSE).e

SrchStore ==
    /\ pc = "idle"
    /\ Cardinality(nodes) < MaxFacts
    /\ \E d \in Distances : \E old \in {NoId} \cup ValidFactIds :
       \E s \in {WriterStore(Engine, "fact", EngineNodeData("fact"), FALSE)} :
          EngineBecomes(FactPublished(s, d, old))
    /\ UNCHANGED <<meta, pc, req, resp, calls, inc, wire>>

\* One call of Reader.SemanticSearch restricted to facts.
SrchSearch ==
    /\ pc = "idle"
    /\ \E limit \in 1..2 :
          /\ req' = [tool |-> "semantic_search", args |-> [limit |-> limit],
                     f |-> NoFaults]
          /\ resp' = SemanticSearch(Engine, TRUE, <<"fact">>, limit, {})
    /\ pc' = "done"
    /\ UNCHANGED <<nodes, edges, invalidates, meta, nextTok, calls, inc, eng, wire>>

NextSearch == SrchStore \/ SrchSearch

SpecSearch == Init /\ [][NextSearch]_vars

\* The embedding rows of the facts that are still valid.
ValidEmbedded ==
    {m \in eng.embeddings : m.nodeType = "fact" /\ m.id \in ValidFactIds}

\* C27: whenever at least limit valid facts have an embedding row, semantic
\* search restricted to facts returns limit results, and they are the limit
\* valid facts nearest to the query, however many invalidated facts lie
\* nearer.
C27_ValidFactsNotStarved ==
    (Done("semantic_search") /\ Cardinality(ValidEmbedded) >= req.args.limit) =>
       /\ resp.err = ""
       /\ Len(resp.results) = req.args.limit
       /\ Range(resp.results) \subseteq ValidEmbedded
       /\ \A m \in ValidEmbedded \ Range(resp.results) :
             \A r \in Range(resp.results) : r.distance <= m.distance

(***************************************************************************)
(* Readers that issue several queries, run against writers.  The engine    *)
(* is re-entrant and wraps no operation in a transaction: every substrate  *)
(* statement is one step, and statements of other callers run in between.  *)
(***************************************************************************)

RdNodeData(nodeType) ==
    IF nodeType = "fact" THEN EngineNodeData("fact")
    ELSE [title |-> Txt, rationale |-> Txt]

\* store_fact / store_decision by another caller.
RdStore ==
    /\ Cardinality(nodes) < MaxNodes
    /\ \E nodeType \in {"fact", "decision"} :
          EngineBecomes(WriterStore(Engine, nodeType, RdNodeData(nodeType), FALSE).e)
    /\ UNCHANGED <<meta, pc, req, resp, calls, inc, wire>>

\* invalidate_fact by another caller, of a fact that is still valid in
\* favour of another fact.  Its two statements are taken together: the
\* readers below look at the node relations only.
RdInvalidate ==
    /\ \E old \in ValidFactIds : \E new \in IdsOf("fact") \ {old} :
          EngineBecomes(WriterInvalidateFact(Engine, old, new, ReplacedBy(new), FALSE).e)
    /\ UNCHANGED <<meta, pc, req, resp, calls, inc, wire>>

\* GetStats, stats := &tools.GraphStats{}.
StatsBegin ==
    /\ pc = "idle"
    /\ pc' = "stats"
    /\ req' = [tool |-> "get_stats", args |-> [next |-> 1], f |-> NoFaults]
    /\ resp' = [q \in Range(StatsQueries) |-> 0]
    /\ UNCHANGED <<nodes, edges, invalidates, meta, nextTok, calls, inc, eng, wire>>

\* GetStats, one count query of the loop, on a substrate that answers.
\* After the last one the statistics are returned.
StatsQuery ==
    /\ pc = "stats"
    /\ resp' = [resp EXCEPT ![StatsQueries[req.args.next]] =
                   StatsCount(nodes, StatsQueries[req.args.next])]
    /\ req' = [req EXCEPT !.args.next = @ + 1]
    /\ pc' = IF req.args.next = Len(StatsQueries) THEN "done" ELSE "stats"
    /\ UNCHANGED <<nodes, edges, invalidates, meta, nextTok, calls, inc, eng, wire>>

ReaderListOpts ==
    {[NodeType |-> "fact", Category |-> "", Kind |-> "", Status |-> "",
      ValidOnly |-> v, Limit |-> l, Offset |-> o, SortBy |-> "", SortOrder |-> ""]
     : v \in BOOLEAN, l \in 1..2, o \in 0..1}

\* ListNodes, the row query.
ListRows ==
    /\ pc = "idle"
    /\ \E opts \in ReaderListOpts :
          /\ req' = [tool |-> "list_nodes", args |-> opts, f |-> NoFaults]
          /\ resp' = [ListNodes(Engine, opts, "") EXCEPT !.total = 0]
    /\ pc' = "list"
    /\ UNCHANGED <<nodes, edges, invalidates, meta, nextTok, calls, inc, eng, wire>>

\* ListNodes, the companion count query (countNodes) and the return.
ListCount ==
    /\ pc = "list"
    /\ resp' = [resp EXCEPT !.total = ListNodes(Engine, req.args, "").total]
    /\ pc' = "done"
    /\ UNCHANGED <<nodes, edges, invalidates, meta, nextTok, calls, inc, eng, wire,
                   req>>

NextReaders ==
    \/ RdStore
    \/ RdInvalidate
    \/ StatsBegin
    \/ StatsQuery
    \/ ListRows
    \/ ListCount

SpecReaders == Init /\ [][NextReaders]_vars

\* C28: every result GetStats returns has TotalFacts = ValidFacts +
\* InvalidatedFacts and ActiveDecisions <= TotalDecisions, also when stores
\* and invalidations run concurrently with the count queries.
C28_StatsConsistent ==
    Done("get_stats") =>
       /\ resp["TotalFacts"] = resp["ValidFacts"] + resp["InvalidatedFacts"]
       /\ resp["ActiveDecisions"] <= resp["TotalDecisions"]

ListReturns == pc = "list" /\ pc' = "done"

\* C29: in every ListNodes result the number of returned rows is at most
\* min(limit, total count), and the total count equals the number of rows
\* matching the filters, also when stores and invalidations run between the
\* row query and the count query.
C29_ListCountConsistent ==
    [][ListReturns =>
          /\ Len(resp'.nodes) <= SemanticMin(req.args.Limit, resp'.total)
          /\ resp'.total = Cardinality(ListMatches(Engine, req.args))]_vars

(***************************************************************************)
(* C30: one response per request that has an id                            *)
(***************************************************************************)

\* What serve wrote for the line it read last.
AnsweredOnce(id) == Len(wire.written) = 1 /\ wire.written[1].ID = id

\* C30: for every line it reads, serve writes exactly one response line
\* carrying the request's id if the line is a request that has an id, and
\* writes nothing for an empty line or a line that is not valid JSON, before
\* it reads the next line.
C30_RequestAnsweredOnce ==
    /\ (wire.last.kind = "request" /\ wire.last.req.id # NilID)
          => AnsweredOnce(wire.last.req.id)
    /\ wire.last.kind \in {"empty", "invalid"} => wire.written = <<>>

=============================================================================
